---- MODULE Spec2Model ----
(***************************************************************************)
(* Transcription serving core of vexa.                                     *)
(*                                                                         *)
(*  - services/transcription-service/main.py: the admission gate of       *)
(*    POST /v1/audio/transcriptions (waiting counter, asyncio semaphore,   *)
(*    worker pool) and the request handler around it.                      *)
(*    ServerSpec is the gate; ServerCancelSpec adds task cancellation;     *)
(*    TranscribeSpec is one admitted request from the upload to its        *)
(*    response (language probe, temperature chain, response shaping).      *)
(*  - services/WhisperLive/whisper_live/remote_transcriber.py: the retry   *)
(*    loop of RemoteTranscriber._call_remote_api and the clamping of       *)
(*    no_speech_prob.                                                      *)
(*                                                                         *)
(* The server runs on one asyncio event loop: a coroutine runs until it    *)
(* suspends.  `running` is the request whose coroutine holds the loop; a   *)
(* step that resumes a suspended coroutine needs running = NoReq.          *)
(***************************************************************************)
EXTENDS Integers, Sequences, FiniteSets, TLC

\* ------------------------------------------------------------------ bounds
NumRequests == 4
MaxQueue == 2

MaxSegs == 2     \* segments in one decoder output

\* ------------------------------------------------- defaults of the program
DefaultMaxConcurrent == 2
DefaultMaxQueue == 10
DefaultBusyRetryAfter == 1

\* decoder thresholds, in tenths; MIN_CONFIDENCE_FOR_EN in hundredths
COMPRESSION_RATIO_THRESHOLD == 24
LOG_PROB_THRESHOLD == -10
NO_SPEECH_THRESHOLD == 6
MIN_CONFIDENCE_FOR_EN == 65
LANGUAGE_DETECTION_THRESHOLD == 50
LANGUAGE_DETECTION_SEGMENTS == 10
min_segment_confidence == 40

Requests == 1..NumRequests
NoReq == 0

\* a header that was not sent
Absent == <<"absent">>

Max2(a, b) == IF a >= b THEN a ELSE b
Min2(a, b) == IF a <= b THEN a ELSE b

\* TEMPERATURE_FALLBACK_CHAIN, in tenths
TEMPERATURE_FALLBACK_CHAIN == <<0, 2, 4, 6, 8, 10>>

VARIABLES
  \* configuration read from the environment at import time
  FAIL_FAST_WHEN_BUSY,
  MAX_CONCURRENT_TRANSCRIPTIONS,
  MAX_QUEUE_SIZE,
  BUSY_RETRY_AFTER_S,
  USE_TEMPERATURE_FALLBACK,
  \* shared state of the server
  transcription_semaphore,   \* the semaphore's _value
  sem_waiters,               \* the semaphore's _waiters, in arrival order
  sem_woken,                 \* waiters whose future has been resolved
  waiting_requests,
  waiting_requests_lock,     \* the request inside `async with`, or NoReq
  running,                   \* the request whose coroutine holds the event loop
  \* per request
  pc,
  attempt,                   \* index into temps of the decoding attempt in flight
  status,                    \* HTTP status of the response, 0 before it is sent
  retry_after,               \* Retry-After header of the response, 0 when absent
  acquired,                  \* completed transcription_semaphore.acquire() calls
  released,                  \* transcription_semaphore.release() calls
  at_once,                   \* every admission check so far ran before any release
  \* RemoteTranscriber._call_remote_api
  rt_pc,
  retry_count,
  last_exception,            \* the attempt whose exception was caught last, 0 when none
  responses,                 \* what each HTTP call so far ended with
  sleeps,                    \* the delays slept so far, in tenths of a second
  outcome,                   \* what the call returned or raised
  \* one request inside transcribe_audio, from file.read() to the response
  tr_pc,
  upload,                    \* what the uploaded file holds
  language,                  \* the form field, then the hint passed to the decoder
  temperature,               \* the form field
  auto_detect_low_confidence,
  detected,                  \* what _detect_language_improved returned
  probes,                    \* language probes submitted to the worker pool
  calls,                     \* model.transcribe calls: temperature and language hint
  classes,                   \* how each finished attempt was classified
  decoded,                   \* segments_list of the last finished attempt
  last_info,                 \* info.language of the last finished attempt
  last_segments,
  best,
  response,
  tr_status                  \* HTTP status of the response, 0 before it is sent

VARIABLES
  \* verify_api_token
  API_TOKEN,
  api_key,                   \* the X-API-Key header, Absent when not sent
  auth_header,               \* the Authorization header, Absent when not sent
  auth_status                \* 0 before the check, 200 once passed, 401 once refused

authvars == <<API_TOKEN, api_key, auth_header, auth_status>>

\* _detect_language_improved: its arguments and locals
VARIABLES
  det_audio,                     \* audio_16k cut into 10 s detection segments
  det_rate,                      \* sample_rate: "16k" or "other"
  language_detection_threshold,  \* hundredths
  det_pc,                        \* "idle", "start", "loop", "done", "error"
  seg_idx,
  language_prob_aggregator,      \* sequence of [lang, probs], in insertion order
  segments_processed,
  all_language_probs,            \* Absent (None) or the last segment's list
  det_language,                  \* "none" until the function returns
  det_probability,               \* <<numerator, denominator>>, in hundredths
  det_calls                      \* calls of whisper_model.detect_language

detvars == <<det_audio, det_rate, language_detection_threshold, det_pc, seg_idx,
             language_prob_aggregator, segments_processed, all_language_probs,
             det_language, det_probability, det_calls>>

\* RemoteTranscriber.transcribe: the language it was called with, the backend's
\* answer and the language of the TranscriptionInfo it returns
VARIABLES caller_language, api_language, info_pc, detected_language

infovars == <<caller_language, api_language, info_pc, detected_language>>

\* bot-manager: the meetings table of one user, the user's limit, and the POST /bots
\* request that holds the lock on the user row
VARIABLES
  meetings,             \* sequence of [status, bot_container_id], by meeting id
  max_concurrent_bots,
  bot_pc,               \* "idle", or "launching" between the insert and the commit
  bot_status_code       \* answer to the last POST /bots; 0 before the first

botvars == <<meetings, max_concurrent_bots, bot_pc, bot_status_code>>

\* RemoteTranscriber._response_to_segments: the backend response and what is emitted
VARIABLES
  api_response,   \* [has_segments, segment, text, duration]
  seg_pc,         \* "idle", "convert", "done", "error"
  adapter_segments  \* the emitted sequence of [start, end]

segvars == <<api_response, seg_pc, adapter_segments>>
auxvars == <<authvars, detvars, infovars, botvars, segvars>>

cfgvars == <<FAIL_FAST_WHEN_BUSY, MAX_CONCURRENT_TRANSCRIPTIONS, MAX_QUEUE_SIZE,
             BUSY_RETRY_AFTER_S, USE_TEMPERATURE_FALLBACK>>
semvars == <<transcription_semaphore, sem_waiters, sem_woken>>
reqvars == <<pc, attempt, status, retry_after, acquired, released>>
srvvars == <<semvars, waiting_requests, waiting_requests_lock, running, reqvars, at_once>>
rtvars == <<rt_pc, retry_count, last_exception, responses, sleeps, outcome>>
trvars == <<tr_pc, upload, language, temperature, auto_detect_low_confidence, detected, probes,
            calls, classes, decoded, last_info, last_segments, best, response, tr_status>>
vars == <<cfgvars, srvvars, rtvars, trvars, auxvars>>

\* ===================================================================== server

\* temps = TEMPERATURE_FALLBACK_CHAIN if USE_TEMPERATURE_FALLBACK else [requested_temp]
NumTemps == IF USE_TEMPERATURE_FALLBACK THEN Len(TEMPERATURE_FALLBACK_CHAIN) ELSE 1

\* headers={"Retry-After": str(max(1, BUSY_RETRY_AFTER_S))}
RetryAfterHeader == Max2(1, BUSY_RETRY_AFTER_S)

\* asyncio.Semaphore.locked(): no permit, or a waiter whose future is not cancelled
\* (a waiter stays in _waiters until its coroutine resumes; a cancelled one is
\* dropped from sem_waiters at once, nothing looks at it any more)
SemLocked ==
  \/ transcription_semaphore = 0
  \/ Len(sem_waiters) > 0

\* the first waiter whose future is not resolved yet, or NoReq
NextWaiter ==
  IF \E i \in 1..Len(sem_waiters) : sem_waiters[i] \notin sem_woken
  THEN sem_waiters[CHOOSE i \in 1..Len(sem_waiters) :
                     /\ sem_waiters[i] \notin sem_woken
                     /\ \A j \in 1..(i-1) : sem_waiters[j] \in sem_woken]
  ELSE NoReq

\* asyncio.Semaphore._wake_up_next() on a semaphore [value, waiters, woken]:
\* the first waiter whose future is not done takes a permit
WakeUpNext(sem) ==
  IF \E i \in 1..Len(sem.waiters) : sem.waiters[i] \notin sem.woken
  THEN LET i == CHOOSE i \in 1..Len(sem.waiters) :
                  /\ sem.waiters[i] \notin sem.woken
                  /\ \A j \in 1..(i-1) : sem.waiters[j] \in sem.woken
       IN [sem EXCEPT !.value = @ - 1, !.woken = @ \cup {sem.waiters[i]}]
  ELSE sem

\* asyncio.Semaphore.release() on a semaphore [value, waiters, woken]
ReleaseOf(sem) == WakeUpNext([sem EXCEPT !.value = @ + 1])

\* requests with a task in the worker pool: a language probe or a decoding attempt
InDecoder == {r \in Requests : pc[r] \in {"probe", "decode"}}
\* requests past the admission check that have not answered yet
Holders == {r \in Requests : acquired[r] > released[r]}

\* transcription_semaphore.release(): the permit goes to the first waiter, if any
SemRelease(r) ==
  /\ IF NextWaiter # NoReq
     THEN /\ sem_woken' = sem_woken \cup {NextWaiter}
          /\ transcription_semaphore' = transcription_semaphore
     ELSE /\ sem_woken' = sem_woken
          /\ transcription_semaphore' = transcription_semaphore + 1
  /\ released' = [released EXCEPT ![r] = @ + 1]
  /\ UNCHANGED sem_waiters

\* the handler leaves its try block: finally releases, the response is sent
Exit_release_on_success(r, code) ==
  /\ IF code = 200 THEN SemRelease(r) ELSE UNCHANGED <<semvars, released>>
  /\ pc' = [pc EXCEPT ![r] = "done"]
  /\ status' = [status EXCEPT ![r] = code]
  /\ attempt' = [attempt EXCEPT ![r] = 0]
  /\ running' = NoReq
  /\ UNCHANGED <<retry_after, acquired, waiting_requests, waiting_requests_lock, at_once>>
Exit(r, code) ==
  /\ SemRelease(r)
  /\ pc' = [pc EXCEPT ![r] = "done"]
  /\ status' = [status EXCEPT ![r] = code]
  /\ attempt' = [attempt EXCEPT ![r] = 0]
  /\ running' = NoReq
  /\ UNCHANGED <<retry_after, acquired, waiting_requests, waiting_requests_lock, at_once>>

\* a 503 raised inside the first `async with`, before the try block
Shed_releasing(r) ==
  /\ SemRelease(r)
  /\ pc' = [pc EXCEPT ![r] = "done"]
  /\ status' = [status EXCEPT ![r] = 503]
  /\ retry_after' = [retry_after EXCEPT ![r] = RetryAfterHeader]
  /\ waiting_requests_lock' = NoReq
  /\ running' = NoReq
  /\ UNCHANGED <<waiting_requests, attempt, acquired, at_once>>
Shed(r) ==
  /\ pc' = [pc EXCEPT ![r] = "done"]
  /\ status' = [status EXCEPT ![r] = 503]
  /\ retry_after' = [retry_after EXCEPT ![r] = RetryAfterHeader]
  /\ waiting_requests_lock' = NoReq
  /\ running' = NoReq
  /\ UNCHANGED <<semvars, waiting_requests, attempt, acquired, released, at_once>>

\* FAIL_FAST_WHEN_BUSY and (transcription_semaphore.locked() or waiting_requests > 0)
BusyCheck_ignoring_slots == FAIL_FAST_WHEN_BUSY /\ waiting_requests > 0
BusyCheck_any_held ==
  FAIL_FAST_WHEN_BUSY /\ (transcription_semaphore < MAX_CONCURRENT_TRANSCRIPTIONS
                           \/ waiting_requests > 0)
BusyCheck == FAIL_FAST_WHEN_BUSY /\ (SemLocked \/ waiting_requests > 0)

\* waiting_requests >= MAX_QUEUE_SIZE
QueueFull_off_by_one == waiting_requests > MAX_QUEUE_SIZE
QueueFull == waiting_requests >= MAX_QUEUE_SIZE

\* the request reaches the handler; requests are numbered in arrival order
Arrive(r) ==
  /\ running = NoReq
  /\ pc[r] = "new"
  /\ \A q \in Requests : q < r => pc[q] # "new"
  /\ \E model_given \in BOOLEAN :
       IF model_given
       THEN \* async with waiting_requests_lock:
            /\ waiting_requests_lock = NoReq
            /\ waiting_requests_lock' = r
            /\ pc' = [pc EXCEPT ![r] = "check"]
            /\ running' = r
            /\ at_once' = (at_once /\ \A q \in Requests : released[q] = 0)
            /\ UNCHANGED status
       ELSE \* if not requested_model: raise HTTPException(status_code=400, ...)
            /\ pc' = [pc EXCEPT ![r] = "done"]
            /\ status' = [status EXCEPT ![r] = 400]
            /\ UNCHANGED <<waiting_requests_lock, running, at_once>>
  /\ UNCHANGED <<semvars, waiting_requests, attempt, retry_after, acquired, released>>
  /\ UNCHANGED <<cfgvars, rtvars, trvars, auxvars>>

\* Depends(verify_api_token) raises HTTPException(401): the handler body never runs
Unauthorized(r) ==
  /\ running = NoReq
  /\ pc[r] = "new"
  /\ \A q \in Requests : q < r => pc[q] # "new"
  /\ pc' = [pc EXCEPT ![r] = "done"]
  /\ status' = [status EXCEPT ![r] = 401]
  /\ UNCHANGED <<semvars, waiting_requests, waiting_requests_lock, running, attempt,
                 retry_after, acquired, released, at_once>>
  /\ UNCHANGED <<cfgvars, rtvars, trvars, auxvars>>

ShedBusy(r) ==
  /\ running = r /\ pc[r] = "check"
  /\ BusyCheck
  /\ Shed(r)
  /\ UNCHANGED <<cfgvars, rtvars, trvars, auxvars>>

ShedQueueFull(r) ==
  /\ running = r /\ pc[r] = "check"
  /\ ~BusyCheck
  /\ QueueFull
  /\ Shed(r)
  /\ UNCHANGED <<cfgvars, rtvars, trvars, auxvars>>

\* waiting_requests += 1, leaving the `async with`
Enqueue(r) ==
  /\ running = r /\ pc[r] = "check"
  /\ ~BusyCheck
  /\ ~QueueFull
  /\ waiting_requests' = waiting_requests + 1
  /\ waiting_requests_lock' = NoReq
  /\ pc' = [pc EXCEPT ![r] = "acquire"]
  /\ UNCHANGED <<semvars, running, attempt, status, retry_after, acquired, released,
                 at_once>>
  /\ UNCHANGED <<cfgvars, rtvars, trvars, auxvars>>

\* await transcription_semaphore.acquire(), a permit is free: no suspension
AcquireFree(r) ==
  /\ running = r /\ pc[r] = "acquire"
  /\ ~SemLocked
  /\ transcription_semaphore' = transcription_semaphore - 1
  /\ acquired' = [acquired EXCEPT ![r] = @ + 1]
  /\ pc' = [pc EXCEPT ![r] = "acquired"]
  /\ UNCHANGED <<sem_waiters, sem_woken, waiting_requests, waiting_requests_lock, running,
                 attempt, status, retry_after, released, at_once>>
  /\ UNCHANGED <<cfgvars, rtvars, trvars, auxvars>>

\* await transcription_semaphore.acquire(), no permit: the coroutine suspends
AcquireBlock(r) ==
  /\ running = r /\ pc[r] = "acquire"
  /\ SemLocked
  /\ sem_waiters' = Append(sem_waiters, r)
  /\ pc' = [pc EXCEPT ![r] = "blocked"]
  /\ running' = NoReq
  /\ UNCHANGED <<transcription_semaphore, sem_woken, waiting_requests,
                 waiting_requests_lock, attempt, status, retry_after, acquired, released,
                 at_once>>
  /\ UNCHANGED <<cfgvars, rtvars, trvars, auxvars>>

\* the waiter's future was resolved by a release(): acquire() returns
\* (acquire() ends with: if self._value > 0: self._wake_up_next())
AcquireWake(r) ==
  /\ running = NoReq /\ pc[r] = "blocked"
  /\ r \in sem_woken
  /\ LET left == [value |-> transcription_semaphore,
                  waiters |-> SelectSeq(sem_waiters, LAMBDA q : q # r),
                  woken |-> sem_woken \ {r}]
         after == IF left.value > 0 THEN WakeUpNext(left) ELSE left
     IN /\ sem_waiters' = after.waiters
        /\ sem_woken' = after.woken
        /\ transcription_semaphore' = after.value
  /\ acquired' = [acquired EXCEPT ![r] = @ + 1]
  /\ pc' = [pc EXCEPT ![r] = "acquired"]
  /\ running' = r
  /\ UNCHANGED <<waiting_requests, waiting_requests_lock,
                 attempt, status, retry_after, released, at_once>>
  /\ UNCHANGED <<cfgvars, rtvars, trvars, auxvars>>

\* async with waiting_requests_lock: waiting_requests -= 1; then await file.read()
LeaveQueue_no_decrement(r) ==
  /\ running = r /\ pc[r] = "acquired"
  /\ waiting_requests_lock = NoReq
  /\ pc' = [pc EXCEPT ![r] = "read"]
  /\ running' = NoReq
  /\ UNCHANGED <<semvars, waiting_requests, waiting_requests_lock, attempt, status,
                 retry_after, acquired, released, at_once>>
  /\ UNCHANGED <<cfgvars, rtvars, trvars, auxvars>>
LeaveQueue(r) ==
  /\ running = r /\ pc[r] = "acquired"
  /\ waiting_requests_lock = NoReq
  /\ waiting_requests' = waiting_requests - 1
  /\ pc' = [pc EXCEPT ![r] = "read"]
  /\ running' = NoReq
  /\ UNCHANGED <<semvars, waiting_requests_lock, attempt, status, retry_after, acquired,
                 released, at_once>>
  /\ UNCHANGED <<cfgvars, rtvars, trvars, auxvars>>

\* float(temperature) raises on a malformed form field; otherwise the first
\* decoding attempt is submitted to the worker pool
StartDecoding(r, temperature_ok) ==
  IF temperature_ok
  THEN /\ pc' = [pc EXCEPT ![r] = "decode"]
       /\ attempt' = [attempt EXCEPT ![r] = 1]
       /\ UNCHANGED <<semvars, running, status, retry_after, acquired, released,
                      waiting_requests, waiting_requests_lock, at_once>>
  ELSE /\ Exit(r, 500)

\* file.read() returned: sf.read, then the language probe or the first attempt
ReadAudio(r) ==
  /\ running = NoReq /\ pc[r] = "read"
  /\ \E audio_ok \in BOOLEAN, language_given \in BOOLEAN, temperature_ok \in BOOLEAN :
       IF ~audio_ok
       THEN Exit(r, 400)
       ELSE IF ~language_given
            THEN /\ pc' = [pc EXCEPT ![r] = "probe"]
                 /\ UNCHANGED <<semvars, running, attempt, status, retry_after, acquired,
                                released, waiting_requests, waiting_requests_lock,
                                at_once>>
            ELSE StartDecoding(r, temperature_ok)
  /\ UNCHANGED <<cfgvars, rtvars, trvars, auxvars>>

\* the language probe's future completes
ProbeDone(r) ==
  /\ running = NoReq /\ pc[r] = "probe"
  /\ \E raised \in BOOLEAN, temperature_ok \in BOOLEAN :
       IF raised
       THEN /\ Exit(r, 500)
       ELSE StartDecoding(r, temperature_ok)
  /\ UNCHANGED <<cfgvars, rtvars, trvars, auxvars>>

\* a decoding attempt's future completes and the attempt is classified
DecodeDone(r) ==
  /\ running = NoReq /\ pc[r] = "decode"
  /\ \E result \in {"raised", "silence", "accepted", "hallucination"} :
       CASE result = "raised" ->
              /\ Exit(r, 500)
         [] result \in {"silence", "accepted"} ->
              /\ Exit(r, 200)
         [] result = "hallucination" /\ attempt[r] < NumTemps ->
              /\ attempt' = [attempt EXCEPT ![r] = @ + 1]
              /\ UNCHANGED <<semvars, running, pc, status, retry_after, acquired, released,
                             waiting_requests, waiting_requests_lock, at_once>>
         [] OTHER ->
              \* every temperature was rejected: the last attempt is returned
              /\ Exit(r, 200)
  /\ UNCHANGED <<cfgvars, rtvars, trvars, auxvars>>

\* ------------------------------------------- decoding one request: pure parts
\* Segment fields are in tenths (seconds, log-probability, ratio, probability,
\* temperature); detection probabilities are in hundredths.  A text is a
\* sequence of characters.

\* str.strip()
RECURSIVE LStrip(_)
LStrip(t) == IF t # <<>> /\ Head(t) = " " THEN LStrip(Tail(t)) ELSE t
RECURSIVE RStrip(_)
RStrip(t) == IF t # <<>> /\ t[Len(t)] = " " THEN RStrip(SubSeq(t, 1, Len(t) - 1)) ELSE t
Strip(t) == RStrip(LStrip(t))

\* " ".join(texts)
RECURSIVE Join(_)
Join(texts) ==
  IF texts = <<>> THEN <<>>
  ELSE IF Len(texts) = 1 THEN texts[1]
  ELSE texts[1] \o <<" ">> \o Join(Tail(texts))

LooksLikeSilence_empty_only(segments) == segments = <<>>
\* _looks_like_silence(segments)
LooksLikeSilence(segments) ==
  \A i \in 1..Len(segments) :
    /\ segments[i].no_speech_prob > NO_SPEECH_THRESHOLD
    /\ segments[i].avg_logprob < LOG_PROB_THRESHOLD

\* _looks_like_hallucination(segments)
LooksLikeHallucination(segments) ==
  \E i \in 1..Len(segments) :
    \/ segments[i].compression_ratio > COMPRESSION_RATIO_THRESHOLD
    \/ segments[i].avg_logprob < LOG_PROB_THRESHOLD

ConvertSegments_ids_from_one(segments_list, t) ==
  [idx \in 1..Len(segments_list) |->
     [id |-> idx,
      seek |-> 0,
      start |-> segments_list[idx].start,
      end |-> segments_list[idx].end,
      text |-> segments_list[idx].text,
      temperature |-> t,
      avg_logprob |-> segments_list[idx].avg_logprob,
      compression_ratio |-> segments_list[idx].compression_ratio,
      no_speech_prob |-> segments_list[idx].no_speech_prob,
      audio_start |-> segments_list[idx].start,
      audio_end |-> segments_list[idx].end]]
\* the response segments built from segments_list at temperature t
ConvertSegments(segments_list, t) ==
  [idx \in 1..Len(segments_list) |->
     [id |-> idx - 1,
      seek |-> 0,
      start |-> segments_list[idx].start,
      end |-> segments_list[idx].end,
      text |-> segments_list[idx].text,
      temperature |-> t,
      avg_logprob |-> segments_list[idx].avg_logprob,
      compression_ratio |-> segments_list[idx].compression_ratio,
      no_speech_prob |-> segments_list[idx].no_speech_prob,
      audio_start |-> segments_list[idx].start,
      audio_end |-> segments_list[idx].end]]

\* " ".join([s["text"].strip() for s in segments]).strip()
FullText(segments) ==
  Strip(Join([i \in 1..Len(segments) |-> Strip(segments[i].text)]))

DurationOf_first_segment(segments) == IF segments # <<>> THEN segments[1].end ELSE 0
\* segments[-1]["end"] if segments else 0.0
DurationOf(segments) == IF segments # <<>> THEN segments[Len(segments)].end ELSE 0

\* language is None / last_info is None / best is None / no response yet
NoLang == "none"
NoInfo == "none"
NoBest == [text |-> <<>>, language |-> NoInfo, duration |-> -1, segments |-> <<>>]
NoResponse ==
  [text |-> <<>>, language |-> NoInfo, language_probability |-> -1, duration |-> -1,
   segments |-> <<>>]
NoDetection == [lang |-> NoLang, prob |-> -1]

FallbackBest_empty(info, segments, lang) ==
  [text |-> <<>>, language |-> info, duration |-> 0, segments |-> <<>>]
\* if best is None: fall back to the last attempt
FallbackBest(info, segments, lang) ==
  [text |-> FullText(segments),
   language |-> IF info # NoInfo THEN info ELSE IF lang # NoLang THEN lang ELSE "unknown",
   duration |-> DurationOf(segments),
   segments |-> segments]

\* the response built from best: a low-confidence detection never reports "en"
ShapeResponse_language_kept(b, low_confidence) ==
  [text |-> b.text,
   language |-> b.language,
   language_probability |-> IF low_confidence /\ b.language = "en" THEN 0 ELSE 100,
   duration |-> b.duration,
   segments |-> b.segments]
ShapeResponse_probability_kept(b, low_confidence) ==
  [text |-> b.text,
   language |-> IF low_confidence /\ b.language = "en" THEN "unknown" ELSE b.language,
   language_probability |-> 100,
   duration |-> b.duration,
   segments |-> b.segments]
ShapeResponse(b, low_confidence) ==
  [text |-> b.text,
   language |-> IF low_confidence /\ b.language = "en" THEN "unknown" ELSE b.language,
   language_probability |-> IF low_confidence /\ b.language = "en" THEN 0 ELSE 100,
   duration |-> b.duration,
   segments |-> b.segments]

\* no request is being authenticated
AuthIdle ==
  /\ API_TOKEN = <<>>
  /\ api_key = Absent
  /\ auth_header = Absent
  /\ auth_status = 0

DetIdle ==
  /\ det_audio = <<>>
  /\ det_rate = "16k"
  /\ language_detection_threshold = LANGUAGE_DETECTION_THRESHOLD
  /\ det_pc = "idle"
  /\ seg_idx = 0
  /\ language_prob_aggregator = <<>>
  /\ segments_processed = 0
  /\ all_language_probs = Absent
  /\ det_language = "none"
  /\ det_probability = <<0, 1>>
  /\ det_calls = 0

InfoIdle ==
  /\ caller_language = Absent
  /\ api_language = Absent
  /\ info_pc = "idle"
  /\ detected_language = Absent

BotIdle ==
  /\ meetings = <<>>
  /\ max_concurrent_bots = 1
  /\ bot_pc = "idle"
  /\ bot_status_code = 0

SegIdle ==
  /\ api_response = Absent
  /\ seg_pc = "idle"
  /\ adapter_segments = <<>>

AuxIdle == AuthIdle /\ DetIdle /\ InfoIdle /\ BotIdle /\ SegIdle

\* the request is not in the handler
TrIdle ==
  /\ tr_pc = "idle"
  /\ upload = "none"
  /\ language = NoLang
  /\ temperature = <<>>
  /\ auto_detect_low_confidence = FALSE
  /\ detected = NoDetection
  /\ probes = 0
  /\ calls = <<>>
  /\ classes = <<>>
  /\ decoded = <<>>
  /\ last_info = NoInfo
  /\ last_segments = <<>>
  /\ best = NoBest
  /\ response = NoResponse
  /\ tr_status = 0

\* the configurations explored: every FAIL_FAST_WHEN_BUSY, MAX_CONCURRENT_TRANSCRIPTIONS
\* and MAX_QUEUE_SIZE; BUSY_RETRY_AFTER_S and USE_TEMPERATURE_FALLBACK leave their
\* defaults one at a time, with the default queue size
ServerConfigs ==
  {c \in [ff : BOOLEAN,
          mc : 1..DefaultMaxConcurrent,
          mq : (0..MaxQueue) \cup {DefaultMaxQueue},
          ra : {0, DefaultBusyRetryAfter, 2},
          tf : BOOLEAN] :
     /\ c.ra # DefaultBusyRetryAfter => c.mq = DefaultMaxQueue /\ ~c.tf
     /\ c.tf => c.mq = DefaultMaxQueue}

NoOutcome == [kind |-> "none", status_code |-> 0, retry_after_s |-> 0, attempt_no |-> 0]

RtIdle ==
  /\ rt_pc = "idle"
  /\ retry_count = 0
  /\ last_exception = 0
  /\ responses = <<>>
  /\ sleeps = <<>>
  /\ outcome = NoOutcome

\* the module-level state after import, under configuration c
ServerStart(c) ==
  /\ FAIL_FAST_WHEN_BUSY = c.ff
  /\ MAX_CONCURRENT_TRANSCRIPTIONS = c.mc
  /\ MAX_QUEUE_SIZE = c.mq
  /\ BUSY_RETRY_AFTER_S = c.ra
  /\ USE_TEMPERATURE_FALLBACK = c.tf
  /\ transcription_semaphore = MAX_CONCURRENT_TRANSCRIPTIONS
  /\ sem_waiters = <<>>
  /\ sem_woken = {}
  /\ waiting_requests = 0
  /\ waiting_requests_lock = NoReq
  /\ running = NoReq
  /\ pc = [r \in Requests |-> "new"]
  /\ attempt = [r \in Requests |-> 0]
  /\ status = [r \in Requests |-> 0]
  /\ retry_after = [r \in Requests |-> 0]
  /\ acquired = [r \in Requests |-> 0]
  /\ released = [r \in Requests |-> 0]
  /\ at_once = TRUE

DefaultConfig ==
  [ff |-> TRUE, mc |-> DefaultMaxConcurrent, mq |-> DefaultMaxQueue,
   ra |-> DefaultBusyRetryAfter, tf |-> FALSE]

ServerInit ==
  /\ \E c \in ServerConfigs : ServerStart(c)
  /\ RtIdle
  /\ TrIdle
  /\ AuxIdle

ServerNext ==
  \E r \in Requests :
    \/ Arrive(r)
    \/ Unauthorized(r)
    \/ ShedBusy(r)
    \/ ShedQueueFull(r)
    \/ Enqueue(r)
    \/ AcquireFree(r)
    \/ AcquireBlock(r)
    \/ AcquireWake(r)
    \/ LeaveQueue(r)
    \/ ReadAudio(r)
    \/ ProbeDone(r)
    \/ DecodeDone(r)

ServerSpec == ServerInit /\ [][ServerNext]_vars

\* every step of a request that is past its arrival
ServerProgress ==
  \E r \in Requests :
    \/ ShedBusy(r)
    \/ ShedQueueFull(r)
    \/ Enqueue(r)
    \/ AcquireFree(r)
    \/ AcquireBlock(r)
    \/ AcquireWake(r)
    \/ LeaveQueue(r)
    \/ ReadAudio(r)
    \/ ProbeDone(r)
    \/ DecodeDone(r)

\* the event loop runs every ready coroutine and every worker-pool call returns;
\* nothing forces a new request to arrive
ServerFairSpec == ServerSpec /\ WF_vars(ServerProgress)

\* ------------------------------------------------- cancellation of a request task
\* task.cancel() on a handler suspended in acquire(), file.read() or on a worker-pool
\* future.  A pending acquire() future is cancelled at once; a resolved one stays in
\* _waiters until the coroutine resumes.  CancelledError is thrown at the next resumption.
Cancel(r) ==
  /\ running = NoReq
  /\ pc[r] \in {"blocked", "read", "probe", "decode"}
  /\ sem_waiters' = IF pc[r] = "blocked" /\ r \notin sem_woken
                    THEN SelectSeq(sem_waiters, LAMBDA q : q # r)
                    ELSE sem_waiters
  /\ pc' = [pc EXCEPT ![r] = "cancelling"]
  /\ UNCHANGED <<transcription_semaphore, sem_woken, waiting_requests,
                 waiting_requests_lock, running, attempt, status, retry_after, acquired,
                 released, at_once>>
  /\ UNCHANGED <<cfgvars, rtvars, trvars, auxvars>>

\* the cancelled coroutine resumes: CancelledError is not an Exception, so only the
\* finally clause runs; an acquire() whose future was already resolved first gives
\* its permit back (except CancelledError: self._value += 1; self._wake_up_next())
Unwind(r) ==
  /\ running = NoReq
  /\ pc[r] = "cancelling"
  /\ LET sem == [value |-> transcription_semaphore,
                 waiters |-> SelectSeq(sem_waiters, LAMBDA q : q # r),
                 woken |-> sem_woken \ {r}]
         left == IF r \in sem_woken THEN ReleaseOf(sem) ELSE sem
         after == ReleaseOf(left)
     IN /\ transcription_semaphore' = after.value
        /\ sem_waiters' = after.waiters
        /\ sem_woken' = after.woken
  /\ released' = [released EXCEPT ![r] = @ + 1]
  /\ pc' = [pc EXCEPT ![r] = "cancelled"]
  /\ attempt' = [attempt EXCEPT ![r] = 0]
  /\ UNCHANGED <<waiting_requests, waiting_requests_lock, running, status, retry_after,
                 acquired, at_once>>
  /\ UNCHANGED <<cfgvars, rtvars, trvars, auxvars>>

ServerCancelNext ==
  \/ ServerNext
  \/ \E r \in Requests : Cancel(r)
  \/ \E r \in Requests : Unwind(r)

ServerCancelSpec == ServerInit /\ [][ServerCancelNext]_vars

\* ========================================================== RemoteTranscriber
\* Times are in tenths of a second.

\* self.max_retries, self.initial_retry_delay (1.0 s), self.max_retry_delay (10.0 s)
max_retries == 3
initial_retry_delay == 10
max_retry_delay == 100

RECURSIVE Pow2(_)
Pow2(n) == IF n <= 0 THEN 1 ELSE 2 * Pow2(n - 1)

\* the text of a Retry-After header, one character per element; Absent when not sent
RetryAfterTexts ==
  {<<"2">>, <<"0">>, <<"0", ".", "5">>, <<"1", "0">>, <<"a", "b", "c">>, <<>>}

DigitChars == <<"0", "1", "2", "3", "4", "5", "6", "7", "8", "9">>
IsDigit(c) == \E d \in 1..10 : DigitChars[d] = c
DigitVal(c) == (CHOOSE d \in 1..10 : DigitChars[d] = c) - 1

RECURSIVE DigitsVal(_)
DigitsVal(t) ==
  IF t = <<>> THEN 0 ELSE 10 * DigitsVal(SubSeq(t, 1, Len(t) - 1)) + DigitVal(t[Len(t)])

\* float(text) for decimal text with at most one fractional digit: the value in
\* tenths, or -1 when float() raises ValueError
FloatOf(t) ==
  LET dots == {i \in 1..Len(t) : t[i] = "."}
      ok == /\ \A i \in 1..Len(t) : IsDigit(t[i]) \/ t[i] = "."
            /\ Cardinality(dots) <= 1
            /\ \E i \in 1..Len(t) : IsDigit(t[i])
      dot == IF dots = {} THEN Len(t) + 1 ELSE CHOOSE i \in dots : TRUE
      whole == SubSeq(t, 1, dot - 1)
      frac == SubSeq(t, dot + 1, Len(t))
  IN IF ~ok THEN -1
     ELSE 10 * DigitsVal(whole) + (IF frac = <<>> THEN 0 ELSE DigitVal(frac[1]))

\* retry_after_raw = response.headers.get("Retry-After", "1");
\* try: float(retry_after_raw) except Exception: 1.0
ParseRetryAfter(h) ==
  LET raw == IF h = Absent THEN <<"1">> ELSE h
  IN IF FloatOf(raw) < 0 THEN 10 ELSE FloatOf(raw)

\* RemoteTranscriberOverloaded.__init__: float(retry_after_s or 0.0)
OverloadedError(code, retry_after_s, n) ==
  [kind |-> "overloaded", status_code |-> code,
   retry_after_s |-> (IF retry_after_s = 0 THEN 0 ELSE retry_after_s),
   attempt_no |-> n]

\* what one self.http_client.post(...) can end with
ServerResponses ==
       [kind : {"http"}, code : {400, 401, 500}, hdr : {Absent}, json_ok : {FALSE}]
  \cup [kind : {"http"}, code : {200}, hdr : {Absent}, json_ok : BOOLEAN]
  \cup [kind : {"http"}, code : {429, 503}, hdr : RetryAfterTexts \cup {Absent},
        json_ok : {TRUE}]
  \cup [kind : {"connect", "timeout"}, code : {0}, hdr : {Absent}, json_ok : {FALSE}]

\* response.status_code in (429, 503)
IsOverloadStatus_503_only(code) == code = 503
IsOverloadStatus(code) == code \in {429, 503}

\* the attempt raised something the handlers retry: a transport error or timeout,
\* raise_for_status() on an error status, or response.json() on an unparsable body
AttemptFailed(resp) ==
  \/ resp.kind # "http"
  \/ resp.code >= 400 /\ ~IsOverloadStatus(resp.code)
  \/ resp.code < 400 /\ ~resp.json_ok

\* delay = min(self.initial_retry_delay * (2 ** (retry_count - 1)), self.max_retry_delay)
RetryDelay_no_offset(n) == Min2(initial_retry_delay * Pow2(n), max_retry_delay)
RetryDelay(n) == Min2(initial_retry_delay * Pow2(n - 1), max_retry_delay)

\* retry_count <= self.max_retries
MayRetry_strict(n) == n < max_retries
MayRetry(n) == n <= max_retries

LastResponse == responses[Len(responses)]

\* response = self.http_client.post(...), or the exception it raises
RtPost ==
  /\ rt_pc = "post"
  /\ MayRetry(retry_count)
  /\ \E resp \in ServerResponses : responses' = Append(responses, resp)
  /\ rt_pc' = "got"
  /\ UNCHANGED <<retry_count, last_exception, sleeps, outcome>>
  /\ UNCHANGED <<cfgvars, srvvars, trvars, auxvars>>

\* raise RemoteTranscriberOverloaded(...), re-raised by its own except clause
RtOverloaded ==
  /\ rt_pc = "got"
  /\ LastResponse.kind = "http" /\ IsOverloadStatus(LastResponse.code)
  /\ outcome' = OverloadedError(LastResponse.code, ParseRetryAfter(LastResponse.hdr),
                                Len(responses))
  /\ rt_pc' = "done"
  /\ UNCHANGED <<retry_count, last_exception, responses, sleeps>>
  /\ UNCHANGED <<cfgvars, srvvars, trvars, auxvars>>

\* return response.json()
RtReturn ==
  /\ rt_pc = "got"
  /\ LastResponse.kind = "http" /\ ~IsOverloadStatus(LastResponse.code)
  /\ ~AttemptFailed(LastResponse)
  /\ outcome' = [kind |-> "returned", status_code |-> LastResponse.code,
                 retry_after_s |-> 0, attempt_no |-> Len(responses)]
  /\ rt_pc' = "done"
  /\ UNCHANGED <<retry_count, last_exception, responses, sleeps>>
  /\ UNCHANGED <<cfgvars, srvvars, trvars, auxvars>>

\* except ...: retry_count += 1; time.sleep(delay); next iteration of the loop
RtRetry ==
  /\ rt_pc = "got"
  /\ AttemptFailed(LastResponse)
  /\ MayRetry(retry_count + 1)
  /\ last_exception' = Len(responses)
  /\ retry_count' = retry_count + 1
  /\ sleeps' = Append(sleeps, RetryDelay(retry_count + 1))
  /\ rt_pc' = "post"
  /\ UNCHANGED <<responses, outcome>>
  /\ UNCHANGED <<cfgvars, srvvars, trvars, auxvars>>

\* except ...: retry_count += 1; retries exhausted: raise
RtGiveUp ==
  /\ rt_pc = "got"
  /\ AttemptFailed(LastResponse)
  /\ ~MayRetry(retry_count + 1)
  /\ last_exception' = Len(responses)
  /\ retry_count' = retry_count + 1
  /\ outcome' = [kind |-> "raised", status_code |-> LastResponse.code,
                 retry_after_s |-> 0, attempt_no |-> Len(responses)]
  /\ rt_pc' = "done"
  /\ UNCHANGED <<responses, sleeps>>
  /\ UNCHANGED <<cfgvars, srvvars, trvars, auxvars>>

AdapterInit ==
  /\ ServerStart(DefaultConfig)
  /\ rt_pc = "post"
  /\ retry_count = 0
  /\ last_exception = 0
  /\ responses = <<>>
  /\ sleeps = <<>>
  /\ outcome = NoOutcome
  /\ TrIdle
  /\ AuxIdle

AdapterNext ==
  \/ RtPost
  \/ RtOverloaded
  \/ RtReturn
  \/ RtRetry
  \/ RtGiveUp

AdapterSpec == AdapterInit /\ [][AdapterNext]_vars

\* http_client.post returns or raises within its 60 s timeout and time.sleep returns:
\* the synchronous call always takes its next step
AdapterFairSpec == AdapterSpec /\ WF_vars(AdapterNext)

\* ---------------------------------------------- no_speech_prob in the adapter
\* a backend's no_speech_prob: a JSON number (in tenths), NaN, a string, null, or
\* no such key
BackendProbs ==
  [kind : {"number"}, val : {-3, 0, 5, 10, 15}]
    \cup [kind : {"text"}, val : {<<"0", ".", "5">>, <<"2">>, <<"a">>}]
    \cup [kind : {"nan", "null", "missing"}, val : {0}]
BackendTexts == {<<>>, <<" ">>, <<"h", "i">>, <<" ", "h", "i", " ">>}

\* _clamp_probability(value): float(value) raising TypeError or ValueError gives 0.0;
\* min(1.0, nan) is 1.0
ClampProbability(value) ==
  LET clamp(val) == IF val > 10 THEN 10 ELSE Max2(0, Min2(10, val))
  IN CASE value.kind = "number" -> clamp(value.val)
       [] value.kind = "nan" -> 10
       [] value.kind = "text" -> IF FloatOf(value.val) < 0 THEN 0
                                  ELSE clamp(FloatOf(value.val))
       [] OTHER -> 0

\* api_seg.get("no_speech_prob", 0.0), clamped; 0.1 when it clamps to 1.0 on a
\* segment whose text is not blank
AdapterNoSpeechProb(value, text) ==
  LET raw_no_speech_prob ==
        IF value.kind = "missing" THEN [kind |-> "number", val |-> 0] ELSE value
      clamped_prob == ClampProbability(raw_no_speech_prob)
  IN IF clamped_prob >= 10 /\ Strip(text) # <<>> THEN 1 ELSE clamped_prob

\* ==================================================== decoding one request
\* One admitted request from `await file.read()` to its response; the admission
\* gate around it is ServerSpec.

\* the `language` form field: absent, a Whisper language code, or anything else
ValidLanguages == {"en", "fr"}
FormLanguages == {NoLang, "unknown"} \cup ValidLanguages

\* the uploaded file: audio soundfile can read, or anything else
Uploads == {"audio", "garbage"}

\* the `temperature` form field
TemperatureTexts == {<<"0", ".", "5">>, <<>>, <<"a">>}

\* what _detect_language_improved returns: the sentinel ("en", 0.0), or a language
\* with the probability it was accepted at
DetectorResults ==
  {[lang |-> "en", prob |-> 0]}
    \cup {[lang |-> "en", prob |-> 45], [lang |-> "en", prob |-> 60],
          [lang |-> "en", prob |-> 65], [lang |-> "fr", prob |-> 45],
          [lang |-> "fr", prob |-> 90]}

\* segments faster-whisper yields, in time order with end >= start: clear speech,
\* speech exactly at the three thresholds, a repetitive one, a low-confidence one
\* of zero length, a silent one, and one whose no_speech_prob is off the scale
DecoderSegments ==
  {[start |-> 0, end |-> 2, text |-> <<" ", "h", "i">>,
    avg_logprob |-> -5, compression_ratio |-> 15, no_speech_prob |-> 1],
   [start |-> 1, end |-> 3, text |-> <<"y", "o">>,
    avg_logprob |-> -10, compression_ratio |-> 24, no_speech_prob |-> 6],
   [start |-> 0, end |-> 2, text |-> <<"h", "a", " ">>,
    avg_logprob |-> -5, compression_ratio |-> 30, no_speech_prob |-> 1],
   [start |-> 1, end |-> 1, text |-> <<"u", "h">>,
    avg_logprob |-> -15, compression_ratio |-> 15, no_speech_prob |-> 1],
   [start |-> 0, end |-> 2, text |-> <<" ">>,
    avg_logprob |-> -15, compression_ratio |-> 15, no_speech_prob |-> 7],
   [start |-> 1, end |-> 3, text |-> <<"o", "k">>,
    avg_logprob |-> -5, compression_ratio |-> 15, no_speech_prob |-> 15]}
DecoderOutputs ==
  UNION {{o \in [1..n -> DecoderSegments] :
            \A i \in 1..(n - 1) : o[i].start <= o[i + 1].start} : n \in 0..MaxSegs}

\* requested_temp = float(temperature) if temperature else 0.0   (-1: float() raises)
RequestedTemp == IF temperature # <<>> THEN FloatOf(temperature) ELSE 0
Temps_ignoring_fallback == <<RequestedTemp>>
\* temps = TEMPERATURE_FALLBACK_CHAIN if USE_TEMPERATURE_FALLBACK else [requested_temp]
Temps == IF USE_TEMPERATURE_FALLBACK THEN TEMPERATURE_FALLBACK_CHAIN ELSE <<RequestedTemp>>

\* whether the detection d becomes the decoder's language hint
LocksLanguage_no_guard(d) == d.prob > 0
LocksLanguage(d) == d.prob > 0 /\ ~(d.lang = "en" /\ d.prob < MIN_CONFIDENCE_FOR_EN)

\* an exception leaves the handler: HTTPException as raised, anything else as 500
TrFail_as_500(code) ==
  /\ tr_pc' = "done"
  /\ tr_status' = 500
  /\ UNCHANGED <<calls, classes, decoded, last_info, last_segments, best, response>>
TrFail(code) ==
  /\ tr_pc' = "done"
  /\ tr_status' = code
  /\ UNCHANGED <<calls, classes, decoded, last_info, last_segments, best, response>>

\* the worker-pool future of a probe or of an attempt raised: except Exception -> 500
TrDecoderError_next_temperature ==
  IF calls # <<>> /\ Len(calls) < Len(Temps)
  THEN /\ calls' = Append(calls, [temperature |-> Temps[Len(calls) + 1],
                                  language |-> calls[Len(calls)].language])
       /\ UNCHANGED <<tr_pc, classes, decoded, last_info, last_segments, best, response,
                      tr_status>>
  ELSE TrFail(500)
TrDecoderError == TrFail(500)

\* if language is None and model is not None
NeedsProbe_always(lang) == TRUE
NeedsProbe(lang) == lang = NoLang

\* return response
TrRespond(b) ==
  /\ best' = b
  /\ response' = ShapeResponse(b, auto_detect_low_confidence)
  /\ tr_status' = 200
  /\ tr_pc' = "done"

\* requested_temp, temps, and the first model.transcribe call, with hint `lang`
TrStartDecoding(lang) ==
  IF RequestedTemp < 0
  THEN TrFail(500)
  ELSE /\ calls' = Append(calls, [temperature |-> Temps[1], language |-> lang])
       /\ tr_pc' = "decode"
       /\ UNCHANGED <<classes, decoded, last_info, last_segments, best, response, tr_status>>

\* file.read() and sf.read(); then the language probe, or the first attempt
TrReadAudio ==
  /\ tr_pc = "read"
  /\ IF upload = "garbage"
     THEN TrFail(400) /\ UNCHANGED probes
     ELSE IF NeedsProbe(language)
          THEN /\ probes' = probes + 1
                 /\ tr_pc' = "probe"
                 /\ UNCHANGED <<calls, classes, decoded, last_info, last_segments, best,
                                response, tr_status>>
          ELSE TrStartDecoding(language) /\ UNCHANGED probes
  /\ UNCHANGED <<upload, language, temperature, auto_detect_low_confidence, detected>>
  /\ UNCHANGED <<cfgvars, srvvars, rtvars, auxvars>>

\* the probe's future completes: English below MIN_CONFIDENCE_FOR_EN, or the
\* sentinel, leaves the decoder without a hint
TrProbeDone ==
  /\ tr_pc = "probe"
  /\ \/ /\ TrDecoderError
        /\ UNCHANGED <<language, auto_detect_low_confidence, detected>>
     \/ \E d \in DetectorResults :
          LET locks == LocksLanguage(d)
              hint == IF locks THEN d.lang ELSE language
          IN /\ detected' = d
             /\ auto_detect_low_confidence' = ~locks
             /\ language' = hint
             /\ TrStartDecoding(hint)
  /\ UNCHANGED <<upload, temperature, probes>>
  /\ UNCHANGED <<cfgvars, srvvars, rtvars, auxvars>>

\* one pass of `for t in temps` after the attempt's future completed; the response
\* is built as soon as the loop is left
TrDecodeDone ==
  /\ tr_pc = "decode"
  /\ LET call == calls[Len(calls)] IN
     \/ \* the decoder raised; a hint outside its languages always does
        /\ TrDecoderError
     \/ /\ call.language \in ValidLanguages \cup {NoLang}
        /\ \E segments_list \in DecoderOutputs,
              info \in (IF call.language = NoLang THEN ValidLanguages ELSE {call.language}) :
             LET segments == ConvertSegments(segments_list, call.temperature) IN
             /\ decoded' = segments_list
             /\ last_info' = info
             /\ last_segments' = segments
             /\ IF LooksLikeSilence(segments)
                THEN /\ classes' = Append(classes, "silence")
                     /\ TrRespond([text |-> <<>>, language |-> info, duration |-> 0,
                                   segments |-> <<>>])
                     /\ UNCHANGED calls
                ELSE IF ~LooksLikeHallucination(segments)
                THEN /\ classes' = Append(classes, "accepted")
                     /\ TrRespond([text |-> FullText(segments), language |-> info,
                                   duration |-> DurationOf(segments),
                                   segments |-> segments])
                     /\ UNCHANGED calls
                ELSE /\ classes' = Append(classes, "hallucination")
                     /\ IF Len(calls) < Len(Temps)
                        THEN /\ calls' = Append(calls, [temperature |-> Temps[Len(calls) + 1],
                                                        language |-> call.language])
                             /\ UNCHANGED <<tr_pc, best, response, tr_status>>
                        ELSE /\ TrRespond(FallbackBest(info, segments, language))
                             /\ UNCHANGED calls
  /\ UNCHANGED <<upload, language, temperature, auto_detect_low_confidence, detected,
                 probes>>
  /\ UNCHANGED <<cfgvars, srvvars, rtvars, auxvars>>

TranscribeInit ==
  /\ \E fallback \in BOOLEAN : ServerStart([DefaultConfig EXCEPT !.tf = fallback])
  /\ RtIdle
  /\ tr_pc = "read"
  /\ upload \in Uploads
  /\ language \in FormLanguages
  /\ temperature \in TemperatureTexts
  /\ USE_TEMPERATURE_FALLBACK => temperature # <<>>   \* the chain ignores the field
  /\ auto_detect_low_confidence = FALSE
  /\ detected = NoDetection
  /\ probes = 0
  /\ calls = <<>>
  /\ classes = <<>>
  /\ decoded = <<>>
  /\ last_info = NoInfo
  /\ last_segments = <<>>
  /\ best = NoBest
  /\ response = NoResponse
  /\ tr_status = 0
  /\ AuxIdle

TranscribeNext ==
  \/ TrReadAudio
  \/ TrProbeDone
  \/ TrDecodeDone

TranscribeSpec == TranscribeInit /\ [][TranscribeNext]_vars

\* ============================================================ authentication
\* verify_api_token, the dependency that runs before transcribe_audio.  A header or
\* token is a sequence of pieces: characters, with "Bearer " as one piece.

\* API_TOKEN = os.getenv("API_TOKEN", "").strip()
ApiTokens == {<<>>, <<"s", "3">>, <<"Bearer ", "x">>}
\* the X-API-Key header
ApiKeys == {Absent, <<>>, <<"s", "3">>, <<"x">>, <<"Bearer ", "x">>}
\* the Authorization header
AuthHeaders ==
  {Absent, <<"s", "3">>, <<"Bearer ", "s", "3">>, <<"Bearer ", "x">>,
   <<"Bearer ", " ", "s", "3">>, <<"Bearer ", "Bearer ", "s", "3">>,
   <<"Bearer ", "Bearer ", "x">>}

\* auth_header.replace("Bearer ", "")
RemoveBearer(t) == SelectSeq(t, LAMBDA piece : piece # "Bearer ")

\* True (200) or HTTPException(status_code=401)
VerifyResult(token, key, authorization) ==
  LET header == IF authorization = Absent THEN <<>> ELSE authorization
  IN IF token = <<>> THEN 200
     ELSE IF key # Absent /\ key # <<>> /\ key = token THEN 200
     ELSE IF /\ header # <<>> /\ Head(header) = "Bearer "
             /\ Strip(RemoveBearer(header)) = token THEN 200
     ELSE 401

VerifyApiToken ==
  /\ auth_status = 0
  /\ auth_status' = VerifyResult(API_TOKEN, api_key, auth_header)
  /\ UNCHANGED <<API_TOKEN, api_key, auth_header>>
  /\ UNCHANGED <<cfgvars, srvvars, rtvars, trvars, detvars, infovars, botvars, segvars>>

AuthInit ==
  /\ ServerStart(DefaultConfig)
  /\ RtIdle
  /\ TrIdle
  /\ DetIdle
  /\ InfoIdle
  /\ BotIdle
  /\ SegIdle
  /\ API_TOKEN \in ApiTokens
  /\ api_key \in ApiKeys
  /\ auth_header \in AuthHeaders
  /\ auth_status = 0

AuthNext == VerifyApiToken

AuthSpec == AuthInit /\ [][AuthNext]_vars

\* ========================================================== language detection
\* _detect_language_improved.  Probabilities are in hundredths; an average is kept as
\* the pair <<sum, count>> and compared by cross-multiplication.

MaxDetSegs == 3     \* detection segments in one input

\* what whisper_model.detect_language reports for a segment: (token, probability)
\* pairs, most probable first; a token is "en" or "<|en|>"
SegmentProbs ==
  {<<>>,
   <<[token |-> <<"en">>, p |-> 45], [token |-> <<"fr">>, p |-> 20]>>,
   <<[token |-> <<"en">>, p |-> 60], [token |-> <<"fr">>, p |-> 30]>>,
   <<[token |-> <<"en">>, p |-> 50], [token |-> <<"fr">>, p |-> 30]>>,
   <<[token |-> <<"<|", "fr", "|>">>, p |-> 90], [token |-> <<"<|", "en", "|>">>, p |-> 5]>>,
   <<[token |-> <<"en">>, p |-> 35], [token |-> <<"fr">>, p |-> 30]>>,
   <<[token |-> <<"en">>, p |-> 42], [token |-> <<"fr">>, p |-> 38]>>,
   <<[token |-> <<"fr">>, p |-> 45]>>}

\* a full 10 s segment, a last segment of 1..7999 samples, an input of 0 samples
FullSegments == [samples : {"full"}, probs : SegmentProbs]
ShortSegment == [samples |-> "short", probs |-> <<>>]
EmptySegment == [samples |-> "empty", probs |-> <<>>]

RECURSIVE SeqsUpTo(_, _)
SeqsUpTo(S, n) ==
  IF n = 0 THEN {<<>>}
  ELSE LET shorter == SeqsUpTo(S, n - 1)
       IN shorter \cup {Append(q, x) : q \in {t \in shorter : Len(t) = n - 1}, x \in S}

\* only the last segment of an input can be shorter than 10 s
DetAudios ==
  (SeqsUpTo(FullSegments, MaxDetSegs) \ {<<>>})
    \cup {Append(q, ShortSegment) : q \in SeqsUpTo(FullSegments, MaxDetSegs - 1)}
    \cup {<<EmptySegment>>}

\* num_segments
NumSegments(audio) == Min2(LANGUAGE_DETECTION_SEGMENTS, Max2(1, Len(audio)))

\* t[2:-2] if t starts with "<|" and ends with "|>"
StripToken(t) ==
  IF Len(t) >= 2 /\ t[1] = "<|" /\ t[Len(t)] = "|>" THEN t[2] ELSE t[1]

StripTokens(probs) ==
  [i \in 1..Len(probs) |-> [lang |-> StripToken(probs[i].token), p |-> probs[i].p]]

RECURSIVE SumSeq(_)
SumSeq(q) == IF q = <<>> THEN 0 ELSE Head(q) + SumSeq(Tail(q))

RECURSIVE MaxProb(_)
MaxProb(probs) ==
  IF Len(probs) = 1 THEN probs[1].p ELSE Max2(probs[1].p, MaxProb(Tail(probs)))

\* the three `continue` tests after detect_language
SkipSegment(probs) ==
  \/ probs = <<>>
  \/ MaxProb(probs) < min_segment_confidence
  \/ /\ Len(probs) >= 2
     /\ \/ probs[1].p - probs[2].p < 12 /\ probs[1].p < 45
        \/ probs[1].p < 30

\* language_prob_aggregator.setdefault(lang, []).append(prob)
AggAppend(agg, lang, prob) ==
  IF \E i \in 1..Len(agg) : agg[i].lang = lang
  THEN [i \in 1..Len(agg) |->
          IF agg[i].lang = lang
          THEN [agg[i] EXCEPT !.probs = Append(@, prob)] ELSE agg[i]]
  ELSE Append(agg, [lang |-> lang, probs |-> <<prob>>])

RECURSIVE Aggregate(_, _)
Aggregate(agg, probs) ==
  IF probs = <<>> THEN agg
  ELSE Aggregate(IF Head(probs).p >= 10
                 THEN AggAppend(agg, Head(probs).lang, Head(probs).p) ELSE agg,
                 Tail(probs))

\* sum(probs) / len(probs) of entry a is greater than that of entry b
AvgGreater(a, b) == SumSeq(a.probs) * Len(b.probs) > SumSeq(b.probs) * Len(a.probs)

\* max(lang_avg_probs, key=lang_avg_probs.get): the first entry with the largest value
TopByAvg(agg) ==
  agg[CHOOSE i \in 1..Len(agg) :
        /\ \A j \in 1..Len(agg) : ~AvgGreater(agg[j], agg[i])
        /\ \A j \in 1..(i - 1) : AvgGreater(agg[i], agg[j])]

\* avg_prob * (0.7 + 0.3 * min(1.0, len(probs) / 3.0)), times 10 * len(probs)
ScoreNum(a) == SumSeq(a.probs) * (7 + Min2(3, Len(a.probs)))

ScoreGreater(a, b) == ScoreNum(a) * Len(b.probs) > ScoreNum(b) * Len(a.probs)

\* max(lang_scores, key=lang_scores.get)
TopByScore(agg) ==
  agg[CHOOSE i \in 1..Len(agg) :
        /\ \A j \in 1..Len(agg) : ~ScoreGreater(agg[j], agg[i])
        /\ \A j \in 1..(i - 1) : ScoreGreater(agg[i], agg[j])]

EarlyStopThreshold(threshold, processed) ==
  IF processed >= 3 THEN Max2(40, threshold - 10) ELSE threshold

\* a break test that also stops when the average equals the threshold
EarlyStop_at_threshold(agg, threshold, processed) ==
  /\ agg # <<>>
  /\ LET top == TopByAvg(agg)
         stop == EarlyStopThreshold(threshold, processed)
     IN /\ SumSeq(top.probs) >= stop * Len(top.probs)
        /\ processed >= 2
        /\ Len(top.probs) >= 2

\* the `break` test at the end of the loop body
EarlyStop(agg, threshold, processed) ==
  /\ agg # <<>>
  /\ LET top == TopByAvg(agg)
         stop == EarlyStopThreshold(threshold, processed)
     IN /\ SumSeq(top.probs) > stop * Len(top.probs)
        /\ processed >= 2
        /\ Len(top.probs) >= 2

\* the block after the loop, entered with language None
FinalSelection(agg, last) ==
  IF agg = <<>>
  THEN IF last # Absent /\ last # <<>> /\ last[1].p >= 50
       THEN [language |-> last[1].lang, probability |-> <<last[1].p, 1>>]
       ELSE [language |-> "en", probability |-> <<0, 1>>]
  ELSE LET best_entry == TopByScore(agg)
       IN IF SumSeq(best_entry.probs) < 50 * Len(best_entry.probs)
          THEN [language |-> "en", probability |-> <<0, 1>>]
          ELSE [language |-> best_entry.lang,
                probability |-> <<SumSeq(best_entry.probs), Len(best_entry.probs)>>]

\* _resample_to_16k: np.interp raises ValueError when there are no sample points
ResampleRaises(audio, rate) == rate # "16k" /\ audio = <<EmptySegment>>

DetFrame == UNCHANGED <<cfgvars, srvvars, rtvars, trvars, authvars, infovars, botvars, segvars>>

\* audio_16k = _resample_to_16k(audio, sample_rate) and the initialisation of the locals
DetResample ==
  /\ det_pc = "start"
  /\ det_pc' = IF ResampleRaises(det_audio, det_rate) THEN "error" ELSE "loop"
  /\ UNCHANGED <<det_audio, det_rate, language_detection_threshold, seg_idx,
                 language_prob_aggregator, segments_processed, all_language_probs,
                 det_language, det_probability, det_calls>>
  /\ DetFrame

\* one iteration of `for seg_idx in range(num_segments)`
DetSegment ==
  /\ det_pc = "loop"
  /\ seg_idx < NumSegments(det_audio)
  /\ LET segment == det_audio[seg_idx + 1]
         probs == StripTokens(segment.probs)
         agg == Aggregate(language_prob_aggregator, probs)
     IN IF segment.samples # "full"
        THEN /\ seg_idx' = seg_idx + 1
             /\ UNCHANGED <<det_pc, language_prob_aggregator, segments_processed,
                            all_language_probs, det_language, det_probability, det_calls>>
        ELSE /\ det_calls' = det_calls + 1
             /\ all_language_probs' = probs
             /\ IF SkipSegment(probs)
                THEN /\ seg_idx' = seg_idx + 1
                     /\ UNCHANGED <<det_pc, language_prob_aggregator, segments_processed,
                                    det_language, det_probability>>
                ELSE /\ language_prob_aggregator' = agg
                     /\ segments_processed' = segments_processed + 1
                     /\ IF EarlyStop(agg, language_detection_threshold,
                                     segments_processed + 1)
                        THEN /\ det_language' = TopByAvg(agg).lang
                             /\ det_probability' = <<SumSeq(TopByAvg(agg).probs),
                                                     Len(TopByAvg(agg).probs)>>
                             /\ det_pc' = "done"
                             /\ UNCHANGED seg_idx
                        ELSE /\ seg_idx' = seg_idx + 1
                             /\ UNCHANGED <<det_pc, det_language, det_probability>>
  /\ UNCHANGED <<det_audio, det_rate, language_detection_threshold>>
  /\ DetFrame

\* the loop ran out without a break: `if language is None:` ... return
DetFinal ==
  /\ det_pc = "loop"
  /\ seg_idx = NumSegments(det_audio)
  /\ LET result == FinalSelection(language_prob_aggregator, all_language_probs)
     IN /\ det_language' = result.language
        /\ det_probability' = result.probability
  /\ det_pc' = "done"
  /\ UNCHANGED <<det_audio, det_rate, language_detection_threshold, seg_idx,
                 language_prob_aggregator, segments_processed, all_language_probs,
                 det_calls>>
  /\ DetFrame

DetectInit ==
  /\ ServerStart(DefaultConfig)
  /\ RtIdle
  /\ TrIdle
  /\ AuthIdle
  /\ InfoIdle
  /\ BotIdle
  /\ SegIdle
  /\ det_audio \in DetAudios
  /\ det_rate \in {"16k", "other"}
  /\ language_detection_threshold \in {45, LANGUAGE_DETECTION_THRESHOLD, 70}
  /\ det_pc = "start"
  /\ seg_idx = 0
  /\ language_prob_aggregator = <<>>
  /\ segments_processed = 0
  /\ all_language_probs = Absent
  /\ det_language = "none"
  /\ det_probability = <<0, 1>>
  /\ det_calls = 0

DetectNext == DetResample \/ DetSegment \/ DetFinal

DetectSpec == DetectInit /\ [][DetectNext]_vars

\* ===================================================== adapter: info.language
\* The end of RemoteTranscriber.transcribe, after _call_remote_api has returned.

\* the entries of LANGUAGE_NAME_TO_CODE for the names used below
LANGUAGE_NAME_TO_CODE ==
  [name \in {<<"e", "n", "g", "l", "i", "s", "h">>, <<"f", "r", "e", "n", "c", "h">>}
     |-> IF name = <<"e", "n", "g", "l", "i", "s", "h">> THEN <<"e", "n">>
         ELSE <<"f", "r">>]

Letters ==
  {"a", "b", "c", "d", "e", "f", "g", "h", "i", "j", "k", "l", "m",
   "n", "o", "p", "q", "r", "s", "t", "u", "v", "w", "x", "y", "z"}

\* str.lower() on the upper-case letters used below
LowerChar(c) ==
  CASE c = "E" -> "e" [] c = "N" -> "n" [] c = "F" -> "f" [] c = "R" -> "r"
    [] OTHER -> c

Lower(t) == [i \in 1..Len(t) |-> LowerChar(t[i])]

\* str.isalpha() on a lower-cased text
IsAlpha(t) == t # <<>> /\ \A i \in 1..Len(t) : t[i] \in Letters

\* normalize_language_code; None is Absent
normalize_language_code(lang) ==
  IF lang = Absent \/ lang = <<>> THEN Absent
  ELSE LET language_lower == Strip(Lower(lang))
       IN IF Len(language_lower) = 2 /\ IsAlpha(language_lower) THEN language_lower
          ELSE IF language_lower \in DOMAIN LANGUAGE_NAME_TO_CODE
               THEN LANGUAGE_NAME_TO_CODE[language_lower]
               ELSE language_lower

\* a value that Python treats as true
Truthy(lang) == lang # Absent /\ lang # <<>>

\* raw_language = language or api_language
RawLanguage(lang, api) == IF Truthy(lang) THEN lang ELSE api

\* a variant that trusts the backend only for two-letter codes
DetectedLanguage_backend_first(lang, api) ==
  IF Truthy(api) /\ Len(normalize_language_code(api)) = 2
  THEN normalize_language_code(api)
  ELSE IF Truthy(lang) THEN normalize_language_code(lang) ELSE <<"e", "n">>

\* detected_language = normalize_language_code(raw_language) if raw_language else "en"
DetectedLanguage(lang, api) ==
  IF Truthy(RawLanguage(lang, api))
  THEN normalize_language_code(RawLanguage(lang, api))
  ELSE <<"e", "n">>

CallerLanguages ==
  {Absent, <<>>, <<"e", "n">>, <<"F", "R">>, <<"E", "n", "g", "l", "i", "s", "h">>,
   <<" ", "f", "r", " ">>, <<"u", "n", "k", "n", "o", "w", "n">>, <<" ">>}

\* api_response.get("language")
ApiLanguages ==
  {Absent, <<>>, <<"e", "n">>, <<"f", "r">>, <<"u", "n", "k", "n", "o", "w", "n">>,
   <<"f", "r", "e", "n", "c", "h">>, <<"E", "N">>}

\* info = TranscriptionInfo(language=detected_language, ...)
MakeInfo ==
  /\ info_pc = "respond"
  /\ detected_language' = DetectedLanguage(caller_language, api_language)
  /\ info_pc' = "done"
  /\ UNCHANGED <<caller_language, api_language>>
  /\ UNCHANGED <<cfgvars, srvvars, rtvars, trvars, authvars, detvars, botvars, segvars>>

InfoInit ==
  /\ ServerStart(DefaultConfig)
  /\ RtIdle
  /\ TrIdle
  /\ AuthIdle
  /\ DetIdle
  /\ BotIdle
  /\ SegIdle
  /\ caller_language \in CallerLanguages
  /\ api_language \in ApiLanguages
  /\ info_pc = "respond"
  /\ detected_language = Absent

InfoNext == MakeInfo

InfoSpec == InfoInit /\ [][InfoNext]_vars

\* ================================================================ bot-manager
\* bot-manager/app/main.py, read by the order of its statements.  A meeting has a
\* MeetingSession, which the callbacks need, once its container was started.

MaxMeetings == 3     \* meetings one user ever requests
MaxBots == 2         \* largest max_concurrent_bots of a user

MeetingStatuses == {"reserved", "starting", "active", "stopping", "completed", "failed"}

\* BotStatusUpdatePayload.status is any string
PayloadStatuses == MeetingStatuses \cup {"paused"}

\* select(func.count(Meeting.id)) ... status in ('reserved', 'starting', 'active')
ActiveCount(ms) ==
  Cardinality({m \in 1..Len(ms) : ms[m].status \in {"reserved", "starting", "active"}})

\* rows that other sessions can see: all but the one a POST /bots has not committed
Committed == IF bot_pc = "launching" THEN 1..(Len(meetings) - 1) ELSE 1..Len(meetings)

\* meetings whose connection_id resolves to a MeetingSession
WithSession == {m \in Committed : meetings[m].bot_container_id # 0}

SetStatus(m, new_status) == [meetings EXCEPT ![m].status = new_status]

BotFrame == UNCHANGED <<cfgvars, srvvars, rtvars, trvars, authvars, detvars, infovars, segvars>>

\* request_bot, phase 1 at the limit: 429, nothing inserted
RequestBotRejected ==
  /\ bot_pc = "idle"
  /\ Len(meetings) < MaxMeetings
  /\ ActiveCount(meetings) >= max_concurrent_bots
  /\ bot_status_code' = 429
  /\ UNCHANGED <<meetings, max_concurrent_bots, bot_pc>>
  /\ BotFrame

\* request_bot, phase 1 below the limit: the user row is locked and a 'reserved'
\* meeting inserted
RequestBotReserve ==
  /\ bot_pc = "idle"
  /\ Len(meetings) < MaxMeetings
  /\ ActiveCount(meetings) < max_concurrent_bots
  /\ meetings' = Append(meetings, [status |-> "reserved", bot_container_id |-> 0])
  /\ bot_pc' = "launching"
  /\ UNCHANGED <<max_concurrent_bots, bot_status_code>>
  /\ BotFrame

\* request_bot, phase 2: start_bot_container answered; commit, or mark failed and commit
RequestBotLaunch ==
  /\ bot_pc = "launching"
  /\ \E started \in BOOLEAN :
       IF started
       THEN /\ meetings' = [meetings EXCEPT ![Len(meetings)].bot_container_id = 1]
            /\ bot_status_code' = 202
       ELSE /\ meetings' = SetStatus(Len(meetings), "failed")
            /\ bot_status_code' = 500
  /\ bot_pc' = "idle"
  /\ UNCHANGED max_concurrent_bots
  /\ BotFrame

\* a started callback that does not look at the current status
StartedStatus_from_any(current) == "starting"

\* meeting.status after the started callback
StartedStatus(current) == IF current = "reserved" THEN "starting" ELSE current

\* meeting.status after the joined callback
JoinedStatus(current) == IF current = "starting" THEN "active" ELSE current

\* bot_started_callback; `async with db.begin()` either opens the transaction or
\* raises because the session has begun one, and then nothing is written
BotStartedCallback(m) ==
  /\ m \in WithSession
  /\ \E begun \in BOOLEAN :
       meetings' = IF begun THEN SetStatus(m, StartedStatus(meetings[m].status))
                   ELSE meetings
  /\ UNCHANGED <<max_concurrent_bots, bot_pc, bot_status_code>>
  /\ BotFrame

\* bot_joined_callback
BotJoinedCallback(m) ==
  /\ m \in WithSession
  /\ \E begun \in BOOLEAN :
       meetings' = IF begun THEN SetStatus(m, JoinedStatus(meetings[m].status))
                   ELSE meetings
  /\ UNCHANGED <<max_concurrent_bots, bot_pc, bot_status_code>>
  /\ BotFrame

\* bot_exit_callback
BotExitCallback(m) ==
  /\ m \in WithSession
  /\ \E exit_code \in {0, 1} :
       meetings' = SetStatus(m, IF exit_code = 0 THEN "completed" ELSE "failed")
  /\ UNCHANGED <<max_concurrent_bots, bot_pc, bot_status_code>>
  /\ BotFrame

\* bot_status_update_callback: meeting.status = new_status
BotStatusUpdateCallback(m) ==
  /\ m \in WithSession
  /\ \E new_status \in PayloadStatuses : meetings' = SetStatus(m, new_status)
  /\ UNCHANGED <<max_concurrent_bots, bot_pc, bot_status_code>>
  /\ BotFrame

\* _cleanup_stale_meetings: the meetings that are stale by the clock become 'failed'
CleanupStaleMeetings ==
  /\ \E stale \in SUBSET {m \in Committed : meetings[m].status \in
                              {"reserved", "starting", "active", "stopping"}} :
       /\ stale # {}
       /\ meetings' = [m \in 1..Len(meetings) |->
                         IF m \in stale THEN [meetings[m] EXCEPT !.status = "failed"]
                         ELSE meetings[m]]
  /\ UNCHANGED <<max_concurrent_bots, bot_pc, bot_status_code>>
  /\ BotFrame

BotInit ==
  /\ ServerStart(DefaultConfig)
  /\ RtIdle
  /\ TrIdle
  /\ AuthIdle
  /\ DetIdle
  /\ InfoIdle
  /\ SegIdle
  /\ meetings = <<>>
  /\ max_concurrent_bots \in 1..MaxBots
  /\ bot_pc = "idle"
  /\ bot_status_code = 0

BotNext ==
  \/ RequestBotRejected
  \/ RequestBotReserve
  \/ RequestBotLaunch
  \/ \E m \in 1..MaxMeetings : BotStartedCallback(m)
  \/ \E m \in 1..MaxMeetings : BotJoinedCallback(m)
  \/ \E m \in 1..MaxMeetings : BotExitCallback(m)
  \/ \E m \in 1..MaxMeetings : BotStatusUpdateCallback(m)
  \/ CleanupStaleMeetings

BotSpec == BotInit /\ [][BotNext]_vars

\* ================================================== adapter: segment timestamps
\* RemoteTranscriber._response_to_segments.  A JSON value is [kind, v]: kind "absent"
\* (no key, or null), "text" (a string that float() rejects), "nan" (NaN, or a string
\* such as "nan" that float() turns into it) or "num" with v in tenths.

NoValue == [kind |-> "absent", v |-> 0]
TextValue == [kind |-> "text", v |-> 0]
NaNValue == [kind |-> "nan", v |-> 0]
Num(n) == [kind |-> "num", v |-> n]

\* float comparisons: every comparison with NaN is false
FloatLess(a, b) == a.kind = "num" /\ b.kind = "num" /\ a.v < b.v
FloatLessEq(a, b) == a.kind = "num" /\ b.kind = "num" /\ a.v <= b.v

\* float addition: NaN plus anything is NaN
FloatAdd(a, b) == IF a.kind = "num" /\ b.kind = "num" THEN Num(a.v + b.v) ELSE NaNValue

\* min(a, b) of Python: b only if b < a
FloatMin(a, b) == IF FloatLess(b, a) THEN b ELSE a

\* _to_float(value, default)
ToFloat(value, default) == IF value.kind \in {"num", "nan"} THEN value ELSE default

\* x = seg.get(a); if x is None: x = seg.get(b, default)
FirstPresent(a, b, default) ==
  IF a.kind # "absent" THEN a ELSE IF b.kind # "absent" THEN b ELSE default

\* start = _to_float(start, default=0.0)
SegmentStart(seg) == ToFloat(FirstPresent(seg.audio_start, seg.start, Num(0)), Num(0))

\* end is None or end <= start
EndInvalid(end_value, start_time) ==
  end_value.kind = "absent" \/ FloatLessEq(end_value, start_time)

\* d and d > 0
Positive(d) == FloatLess(Num(0), d)

\* the end of one segment: the stated end, else start + duration, else the total
\* duration, else start + 0.5
SegmentEnd(seg, total) ==
  LET start_time == SegmentStart(seg)
      stated == ToFloat(FirstPresent(seg.audio_end, seg.end, NoValue), NoValue)
      seg_duration == ToFloat(seg.duration, NoValue)
      by_duration ==
        IF EndInvalid(stated, start_time) /\ Positive(seg_duration)
        THEN FloatAdd(start_time, seg_duration) ELSE stated
      total_duration == ToFloat(total, NoValue)
      by_total ==
        IF EndInvalid(by_duration, start_time)
        THEN IF Positive(total_duration)
             THEN IF Positive(start_time)
                  THEN FloatMin(total_duration, FloatAdd(start_time, total_duration))
                  ELSE total_duration
             ELSE FloatAdd(start_time, Num(5))
        ELSE by_duration
  IN IF EndInvalid(by_total, start_time) THEN FloatAdd(start_time, Num(5)) ELSE by_total

\* the response without a segments array: one segment over the whole text, none for
\* blank text; `duration > 0` raises TypeError for a string
TextSegments(text, duration) ==
  IF Strip(text) = <<>> THEN <<>>
  ELSE <<[start |-> Num(0),
          end |-> IF Positive(duration) THEN duration ELSE Num(Len(text))]>>

SegmentFields ==
  [audio_start : {NoValue, TextValue, NaNValue, Num(0), Num(20)},
   start : {NoValue, TextValue, Num(10), Num(-5)},
   audio_end : {NoValue, TextValue, NaNValue, Num(10), Num(30)},
   end : {NoValue, Num(5), Num(20)},
   duration : {NoValue, TextValue, Num(0), Num(-10), Num(15)}]

TotalDurations == {NoValue, TextValue, NaNValue, Num(0), Num(15), Num(40)}

NoSegment ==
  [audio_start |-> NoValue, start |-> NoValue, audio_end |-> NoValue, end |-> NoValue,
   duration |-> NoValue]

\* a response with one segment, or with none and a text
ApiResponses ==
  [has_segments : {TRUE}, segment : SegmentFields, text : {<<>>},
   duration : TotalDurations]
    \cup [has_segments : {FALSE}, segment : {NoSegment}, text : BackendTexts,
          duration : TotalDurations]

ResponseToSegments ==
  /\ seg_pc = "convert"
  /\ IF ~api_response.has_segments
     THEN IF Strip(api_response.text) # <<>> /\ api_response.duration.kind = "text"
          THEN seg_pc' = "error" /\ UNCHANGED adapter_segments
          ELSE /\ adapter_segments' = TextSegments(api_response.text,
                                          IF api_response.duration.kind = "absent"
                                          THEN Num(0) ELSE api_response.duration)
               /\ seg_pc' = "done"
     ELSE /\ adapter_segments' = <<[start |-> SegmentStart(api_response.segment),
                           end |-> SegmentEnd(api_response.segment,
                                              api_response.duration)]>>
          /\ seg_pc' = "done"
  /\ UNCHANGED api_response
  /\ UNCHANGED <<cfgvars, srvvars, rtvars, trvars, authvars, detvars, infovars, botvars>>

SegInit ==
  /\ ServerStart(DefaultConfig)
  /\ RtIdle
  /\ TrIdle
  /\ AuthIdle
  /\ DetIdle
  /\ InfoIdle
  /\ BotIdle
  /\ api_response \in ApiResponses
  /\ seg_pc = "convert"
  /\ adapter_segments = <<>>

SegNext == ResponseToSegments

SegSpec == SegInit /\ [][SegNext]_vars

\* ============================================================ admission claims

\* requests that ran the admission check and were not shed
Admitted ==
  {r \in Requests : \/ pc[r] \in {"acquire", "acquired", "blocked", "read", "probe", "decode"}
                    \/ pc[r] = "done" /\ acquired[r] > 0}
\* requests answered 503 by the admission check
ShedRequests == {r \in Requests : status[r] = 503}
\* the request r leaves the admission check in this step
LeavesCheck(r) == running = r /\ pc[r] = "check" /\ pc'[r] # "check"

C2_ReleasedOnExit ==
  /\ \A r \in Requests :
       /\ released[r] <= acquired[r]
       /\ acquired[r] <= 1
       /\ pc[r] = "done" => released[r] = acquired[r]
  /\ (\A r \in Requests : pc[r] \in {"new", "done"})
       => transcription_semaphore = MAX_CONCURRENT_TRANSCRIPTIONS
C2_Witness ==
  /\ \A r \in Requests : pc[r] = "done"
  /\ \A code \in {200, 400, 500} :
       \E r \in Requests : status[r] = code /\ acquired[r] = 1 /\ released[r] = 1

\* C3: with FAIL_FAST_WHEN_BUSY, an admission check that finds every slot held or a
\* nonzero waiting counter answers 503 with Retry-After max(1, BUSY_RETRY_AFTER_S)
\* and the request never waits; a check that finds a free slot, waiting = 0 and
\* waiting < MAX_QUEUE_SIZE admits the request.
C3_FailFast ==
  [][\A r \in Requests :
       (FAIL_FAST_WHEN_BUSY /\ LeavesCheck(r)) =>
         /\ (transcription_semaphore = 0 \/ waiting_requests > 0) =>
              /\ pc'[r] = "done"
              /\ status'[r] = 503
              /\ retry_after'[r] = Max2(1, BUSY_RETRY_AFTER_S)
              /\ sem_waiters' = sem_waiters
         /\ (transcription_semaphore > 0 /\ waiting_requests = 0
             /\ waiting_requests < MAX_QUEUE_SIZE) =>
              /\ pc'[r] = "acquire"
              /\ status'[r] = 0]_vars
C3_Witness ==
  /\ FAIL_FAST_WHEN_BUSY
  /\ BUSY_RETRY_AFTER_S = 0
  /\ \E r, q \in Requests :
       /\ pc[q] = "decode" /\ transcription_semaphore = 0
       /\ status[r] = 503 /\ retry_after[r] = 1 /\ acquired[r] = 0

\* C4: the waiting counter never exceeds MAX_QUEUE_SIZE; it grows only by one, under
\* the mutex, from a value below MAX_QUEUE_SIZE; a check that finds
\* waiting >= MAX_QUEUE_SIZE answers 503 with Retry-After and leaves the counter alone.
C4_WaitingBound ==
  [][/\ waiting_requests' <= MAX_QUEUE_SIZE
     /\ waiting_requests' > waiting_requests =>
          /\ waiting_requests' = waiting_requests + 1
          /\ waiting_requests < MAX_QUEUE_SIZE
          /\ running # NoReq /\ waiting_requests_lock = running
     /\ \A r \in Requests :
          (LeavesCheck(r) /\ waiting_requests >= MAX_QUEUE_SIZE) =>
            /\ status'[r] = 503
            /\ retry_after'[r] >= 1
            /\ waiting_requests' = waiting_requests]_vars
C4_Witness ==
  /\ ~FAIL_FAST_WHEN_BUSY
  /\ MAX_QUEUE_SIZE = 2
  /\ waiting_requests = MAX_QUEUE_SIZE
  /\ \E r \in Requests : status[r] = 503 /\ retry_after[r] >= 1

\* C5: with FAIL_FAST_WHEN_BUSY (and a queue size of at least 1) a request checked
\* while fewer than MAX_CONCURRENT_TRANSCRIPTIONS requests hold a slot is admitted and
\* is never answered 503; one checked while MAX_CONCURRENT_TRANSCRIPTIONS requests
\* hold a slot is shed with 503 and Retry-After max(1, BUSY_RETRY_AFTER_S).
C5_UpToMaxConcurrent ==
  [][\A r \in Requests :
       /\ (FAIL_FAST_WHEN_BUSY /\ MAX_QUEUE_SIZE >= 1 /\ LeavesCheck(r)) =>
            IF Cardinality(Holders) < MAX_CONCURRENT_TRANSCRIPTIONS
            THEN pc'[r] = "acquire"
            ELSE /\ status'[r] = 503
                 /\ retry_after'[r] = Max2(1, BUSY_RETRY_AFTER_S)
       /\ (pc[r] = "acquire" /\ FAIL_FAST_WHEN_BUSY) => pc'[r] \in {"acquire", "acquired"}
       /\ (status'[r] # status[r] /\ r \in Admitted) => status'[r] \in {200, 400, 500}]_vars
C5_Witness ==
  /\ FAIL_FAST_WHEN_BUSY
  /\ MAX_CONCURRENT_TRANSCRIPTIONS = 2
  /\ MAX_QUEUE_SIZE = 10
  /\ BUSY_RETRY_AFTER_S = 1
  /\ pc[1] = "done" /\ status[1] = 200
  /\ pc[2] = "done" /\ status[2] = 200
  /\ status[3] = 503 /\ retry_after[3] = 1
  /\ pc[4] = "new"

\* C6 as stated: with fail-fast disabled, of N requests checked before any slot is
\* released exactly min(N, MAX_CONCURRENT_TRANSCRIPTIONS + MAX_QUEUE_SIZE) are admitted.
C6_Original ==
  (~FAIL_FAST_WHEN_BUSY /\ at_once /\ running = NoReq) =>
    Cardinality(Admitted) =
      Min2(Cardinality(Admitted \cup ShedRequests),
           MAX_CONCURRENT_TRANSCRIPTIONS + MAX_QUEUE_SIZE)
\* C6 amended: that count holds when MAX_QUEUE_SIZE >= 1; with MAX_QUEUE_SIZE = 0 no
\* request is admitted. Admitted requests are never answered 503.
C6_QueueSaturation ==
  (~FAIL_FAST_WHEN_BUSY /\ at_once /\ running = NoReq) =>
    /\ Cardinality(Admitted) =
         IF MAX_QUEUE_SIZE = 0
         THEN 0
         ELSE Min2(Cardinality(Admitted \cup ShedRequests),
                   MAX_CONCURRENT_TRANSCRIPTIONS + MAX_QUEUE_SIZE)
    /\ Admitted \cap ShedRequests = {}
C6_Witness ==
  /\ ~FAIL_FAST_WHEN_BUSY
  /\ MAX_CONCURRENT_TRANSCRIPTIONS = 1
  /\ MAX_QUEUE_SIZE = 2
  /\ at_once
  /\ \A r \in 1..3 : pc[r] = "done" /\ status[r] = 200
  /\ status[4] = 503

\* ============================================================== adapter claims

\* the Retry-After values the claims expect, in tenths of a second
ExpectedRetryAfter(h) ==
  CASE h = <<"2">> -> 20
    [] h = <<"0">> -> 0
    [] h = <<"0", ".", "5">> -> 5
    [] h = <<"1", "0">> -> 100
    [] OTHER -> 10
\* the delays the claims expect before the first, second and third retry
ExpectedDelays == <<10, 20, 40>>
IsSuccess(resp) == resp.kind = "http" /\ resp.code = 200
\* an HTTP error status other than 429/503, a transport error or a timeout
IsRetryableError(resp) ==
  \/ resp.kind \in {"connect", "timeout"}
  \/ resp.kind = "http" /\ resp.code \in {400, 401, 500}

\* C7: an attempt answered 429 or 503 is the last HTTP call; no sleep follows it; the
\* call raises RemoteTranscriberOverloaded with that status and the Retry-After header
\* as a float, 1.0 when the header is absent or unparsable, also after earlier retries.
C7_OverloadNotRetried ==
  \A i \in 1..Len(responses) :
    (responses[i].kind = "http" /\ responses[i].code \in {429, 503}) =>
      /\ i = Len(responses)
      /\ Len(sleeps) = i - 1
      /\ rt_pc \in {"got", "done"}
      /\ rt_pc = "done" =>
           outcome = [kind |-> "overloaded", status_code |-> responses[i].code,
                      retry_after_s |-> ExpectedRetryAfter(responses[i].hdr),
                      attempt_no |-> i]
C7_Witness ==
  /\ rt_pc = "done"
  /\ Len(responses) = 3
  /\ responses[3].code = 503 /\ responses[3].hdr = <<"2">>
  /\ outcome.kind = "overloaded" /\ outcome.status_code = 503
  /\ outcome.retry_after_s = 20
  /\ Len(sleeps) = 2

\* the state part of C8
C8_Bounded ==
  /\ Len(responses) <= 4
  /\ Len(sleeps) <= 3
  /\ \A k \in 1..Len(sleeps) : sleeps[k] = ExpectedDelays[k]
  /\ (rt_pc = "done" /\ \A i \in 1..Len(responses) : IsRetryableError(responses[i])) =>
       /\ Len(responses) = 4
       /\ sleeps = ExpectedDelays
       /\ outcome.kind = "raised"
       /\ outcome.attempt_no = 4
       /\ outcome.status_code = responses[4].code
\* C8: at most 4 HTTP calls and 3 sleeps; the k-th sleep lasts min(1.0 * 2^(k-1), 10.0),
\* that is 1 s, 2 s, 4 s; when every attempt fails with a retryable error the call
\* makes 4 calls, sleeps 3 times and raises the last attempt's own error without a
\* further sleep; and the call always terminates.
C8_RetryBudget == [] C8_Bounded /\ <>(rt_pc = "done")
C8_Witness ==
  /\ rt_pc = "done"
  /\ Len(responses) = 4
  /\ responses[1].code = 500 /\ responses[2].kind = "timeout"
  /\ responses[3].kind = "connect" /\ responses[4].code = 500
  /\ outcome.kind = "raised"
  /\ sleeps = <<10, 20, 40>>

\* C9 as stated: the first attempt that returns a success status ends the call: k
\* HTTP calls, k-1 sleeps, that response returned.
C9_Original ==
  \A k \in 1..Len(responses) :
    (IsSuccess(responses[k]) /\ \A j \in 1..(k-1) : ~IsSuccess(responses[j])) =>
      /\ Len(responses) = k
      /\ Len(sleeps) = k - 1
      /\ rt_pc = "done" => outcome.kind = "returned" /\ outcome.attempt_no = k
\* C9 amended: the first attempt that returns a success status whose body parses as
\* JSON ends the call: k HTTP calls, k-1 sleeps of 1 s, 2 s, 4 s, that response returned.
C9_FirstSuccess ==
  \A k \in 1..Len(responses) :
    (IsSuccess(responses[k]) /\ responses[k].json_ok) =>
      /\ k <= 4
      /\ Len(responses) = k
      /\ Len(sleeps) = k - 1
      /\ \A j \in 1..(k-1) : sleeps[j] = ExpectedDelays[j]
      /\ rt_pc \in {"got", "done"}
      /\ rt_pc = "done" => outcome.kind = "returned" /\ outcome.attempt_no = k
C9_Witness ==
  /\ rt_pc = "done"
  /\ Len(responses) = 3
  /\ responses[1].code = 500 /\ responses[2].code = 500
  /\ responses[3].code = 200
  /\ outcome.kind = "returned" /\ outcome.attempt_no = 3
  /\ sleeps = <<10, 20>>

\* C10: a 400 or 401 response is not retried: no HTTP call and no sleep follows it,
\* and the call ends by raising that error.
C10_ClientErrorNotRetried ==
  \A i \in 1..Len(responses) :
    (responses[i].kind = "http" /\ responses[i].code \in {400, 401}) =>
      /\ i = Len(responses)
      /\ Len(sleeps) = i - 1
      /\ rt_pc = "done" => outcome.kind = "raised" /\ outcome.attempt_no = i

\* C11: a request task cancelled at a suspension point of the handler (waiting for a
\* slot, reading the upload, awaiting a worker-pool future) has released exactly the
\* slots it obtained: one if it held a slot, none if it never obtained one.
C11_CancelAccounting ==
  \A r \in Requests : pc[r] = "cancelled" => released[r] = acquired[r]

\* ------------------------------------------------------------ C12 .. C14
LastClass == IF classes = <<>> THEN "none" ELSE classes[Len(classes)]
BorderlineEnglish == detected.lang = "en" /\ detected.prob > 0 /\ detected.prob < 65
NoHintGiven == \A i \in 1..Len(calls) : calls[i].language = NoLang

\* C12 as stated: detection ("en", p), 0 < p < 0.65, gives a decoder without a language
\* hint and a response with language "unknown", probability 0.0, whatever the decoder
\* produced.
C12_Original ==
  BorderlineEnglish =>
    /\ NoHintGiven
    /\ tr_status = 200 => response.language = "unknown" /\ response.language_probability = 0

\* C12: detection ("en", p), 0 < p < 0.65, gives a decoder without a language hint; the
\* response reports "unknown" with probability 0.0 when the decoder itself reports
\* "en", and the decoder's language with probability 1.0 otherwise.
C12_EnglishGuard ==
  BorderlineEnglish =>
    /\ NoHintGiven
    /\ tr_status = 200 =>
         IF last_info = "en"
         THEN response.language = "unknown" /\ response.language_probability = 0
         ELSE response.language = last_info /\ response.language_probability = 100
C12_Witness ==
  /\ tr_status = 200
  /\ detected = [lang |-> "en", prob |-> 60]
  /\ calls # <<>> /\ NoHintGiven
  /\ response.language = "unknown"
  /\ response.segments # <<>>

SentinelSilence ==
  tr_status = 200 /\ detected = [lang |-> "en", prob |-> 0] /\ LastClass = "silence"

\* C13 as stated: silence submitted without a language (sentinel detection, attempt
\* classified as silence) is answered with empty text, no segments, duration 0,
\* language "en" and probability 0.0.
C13_Original ==
  SentinelSilence =>
    /\ response.text = <<>> /\ response.segments = <<>> /\ response.duration = 0
    /\ response.language = "en" /\ response.language_probability = 0

\* C13: silence submitted without a language is answered with empty text, no segments
\* and duration 0; the language is "unknown" with probability 0.0 when the decoder
\* reports "en", and the decoder's language with probability 1.0 otherwise.
C13_SilenceResponse ==
  SentinelSilence =>
    /\ response.text = <<>> /\ response.segments = <<>> /\ response.duration = 0
    /\ IF last_info = "en"
       THEN response.language = "unknown" /\ response.language_probability = 0
       ELSE response.language = last_info /\ response.language_probability = 100
C13_Witness ==
  /\ SentinelSilence
  /\ decoded # <<>>
  /\ last_info = "en"
  /\ response.language = "unknown"

\* C14: in every 200 response, language "unknown" comes with probability 0.0.
C14_UnknownHasZeroProbability ==
  (tr_status = 200 /\ response.language = "unknown") => response.language_probability = 0
C14_Witness ==
  /\ tr_status = 200 /\ response.language = "unknown"
  /\ LastClass = "hallucination"
  /\ detected.prob = 45

\* ------------------------------------------------------------ C15 .. C19
\* the classes as the claims define them, on the decoder's own output
ClaimSilence(raw) ==
  \A i \in 1..Len(raw) : raw[i].no_speech_prob > 6 /\ raw[i].avg_logprob < -10
ClaimHallucination(raw) ==
  \E i \in 1..Len(raw) : raw[i].compression_ratio > 24 \/ raw[i].avg_logprob < -10
ClaimedChain == <<0, 2, 4, 6, 8, 10>>
\* the emitted segments are the decoder's, in order, produced at temperature t
EmittedFrom(segments, raw, t) ==
  /\ Len(segments) = Len(raw)
  /\ \A i \in 1..Len(raw) :
       /\ segments[i].start = raw[i].start /\ segments[i].end = raw[i].end
       /\ segments[i].text = raw[i].text
       /\ segments[i].avg_logprob = raw[i].avg_logprob
       /\ segments[i].compression_ratio = raw[i].compression_ratio
       /\ segments[i].temperature = t
LastEnd(segments) == IF segments = <<>> THEN 0 ELSE segments[Len(segments)].end

\* C15: with the fallback enabled the attempts run at 0.0, 0.2, 0.4, 0.6, 0.8, 1.0 in
\* that order, every attempt before the last one was rejected, and an attempt that is
\* neither silence nor hallucination ends the loop: the response carries its segments,
\* each with that attempt's temperature, and no higher temperature is tried.
C15_TemperatureFallback ==
  USE_TEMPERATURE_FALLBACK =>
    /\ Len(calls) <= Len(ClaimedChain)
    /\ \A i \in 1..Len(calls) : calls[i].temperature = ClaimedChain[i]
    /\ \A i \in 1..(Len(classes) - 1) : classes[i] = "hallucination"
    /\ (classes # <<>> /\ ~ClaimSilence(decoded) /\ ~ClaimHallucination(decoded)) =>
         /\ tr_pc = "done" /\ tr_status = 200
         /\ Len(calls) = Len(classes)
         /\ EmittedFrom(response.segments, decoded, ClaimedChain[Len(classes)])
C15_Witness ==
  /\ USE_TEMPERATURE_FALLBACK
  /\ tr_status = 200
  /\ classes = <<"hallucination", "accepted">>
  /\ Len(calls) = 2
  /\ Len(response.segments) = 2
  /\ \A i \in 1..2 : response.segments[i].temperature = 2
                         /\ response.segments[i].compression_ratio = 15

\* C16: when every attempt of the chain (six steps, or the single requested
\* temperature) is rejected as hallucination, the answer is 200 and carries the last
\* attempt: its segments, its temperature, duration = its last segment's end.
C16_LastAttemptReturned ==
  LET steps == IF USE_TEMPERATURE_FALLBACK THEN 6 ELSE 1
      last_temp == IF USE_TEMPERATURE_FALLBACK THEN 10
                   ELSE IF temperature = <<>> THEN 0 ELSE 5
  IN (/\ Len(classes) = steps
      /\ \A i \in 1..steps : classes[i] = "hallucination") =>
       /\ tr_pc = "done" /\ tr_status = 200
       /\ Len(calls) = steps
       /\ ClaimHallucination(decoded)
       /\ EmittedFrom(response.segments, decoded, last_temp)
       /\ response.duration = LastEnd(decoded)
C16_Witness ==
  /\ USE_TEMPERATURE_FALLBACK
  /\ tr_status = 200
  /\ Len(classes) = 6
  /\ \A i \in 1..6 : classes[i] = "hallucination"
  /\ Len(response.segments) = 2
  /\ response.segments[2].temperature = 10

\* C17: an attempt with no segments, or whose segments all have no_speech_prob > 0.6
\* and avg_logprob < -1.0, is silence even though it would also count as a
\* hallucination: the answer is 200 with empty text, no segments and duration 0, and
\* no further temperature is tried.
C17_SilenceAccepted ==
  (classes # <<>> /\ ClaimSilence(decoded)) =>
    /\ LastClass = "silence"
    /\ tr_pc = "done" /\ tr_status = 200
    /\ Len(calls) = Len(classes)
    /\ response.text = <<>> /\ response.segments = <<>> /\ response.duration = 0
C17_Witness ==
  /\ USE_TEMPERATURE_FALLBACK
  /\ tr_status = 200
  /\ classes = <<"hallucination", "silence">>
  /\ decoded # <<>> /\ ClaimHallucination(decoded)
  /\ Len(calls) = 2

\* C18: in every 200 response the duration is the end of the last emitted segment, or
\* 0 when no segment is emitted.
C18_DurationIsLastEnd ==
  tr_status = 200 => response.duration = LastEnd(response.segments)
C18_Witness ==
  /\ tr_status = 200
  /\ LastClass = "hallucination"
  /\ Len(response.segments) = 2
  /\ response.segments[1].end > response.segments[2].end
  /\ response.duration = response.segments[2].end

C20_AdapterClamp ==
  \A value \in BackendProbs, text \in BackendTexts :
    LET emitted == AdapterNoSpeechProb(value, text)
        too_high == value.kind = "nan"
                      \/ (value.kind = "number" /\ value.val >= 10)
                      \/ value = [kind |-> "text", val |-> <<"2">>]
    IN /\ emitted >= 0 /\ emitted <= 10
       /\ (too_high /\ text \in {<<"h", "i">>, <<" ", "h", "i", " ">>}) => emitted = 1
       /\ (too_high /\ text \in {<<>>, <<" ">>}) => emitted = 10
\* the server's half: every segment of a 200 response
C20_ServerEmits ==
  tr_status = 200 =>
    \A i \in 1..Len(response.segments) :
      /\ response.segments[i].no_speech_prob >= 0
      /\ response.segments[i].no_speech_prob <= 10

\* C20: every emitted segment has no_speech_prob in [0.0, 1.0] whatever the decoder
\* or backend supplied; in the adapter a value that clamps to 1.0 on a segment with
\* non-blank text is replaced by 0.1.
C20_NoSpeechProbInRange == C20_ServerEmits /\ C20_AdapterClamp

\* ------------------------------------------------------------ C21, C23, C24
\* the language field was supplied: it is set and no detection produced it
LanguageSupplied == language # NoLang /\ detected = NoDetection

\* C21: a request that supplies the language field never submits a language probe, and
\* every decoder call carries exactly the supplied language as its hint.
C21_SuppliedLanguage ==
  LanguageSupplied =>
    /\ probes = 0
    /\ tr_pc # "probe"
    /\ \A i \in 1..Len(calls) : calls[i].language = language
C21_Witness ==
  /\ LanguageSupplied
  /\ language = "fr"
  /\ tr_status = 200
  /\ Len(calls) = 2

\* C23: when the future of a language probe or of a decoding attempt raises, the
\* request is answered 500 in that step and no further probe or attempt is submitted,
\* also with temperatures left in the chain.
C23_DecoderErrorFails ==
  [][ /\ ( \/ (tr_pc = "probe" /\ detected' = NoDetection)
           \/ (tr_pc = "decode" /\ classes' = classes) ) =>
           (tr_pc' = "done" /\ tr_status' = 500 /\ calls' = calls /\ probes' = probes)
      /\ tr_status = 500 => (calls' = calls /\ probes' = probes /\ tr_status' = 500) ]_vars
C23_Witness ==
  /\ USE_TEMPERATURE_FALLBACK
  /\ tr_status = 500
  /\ classes = <<"hallucination">>
  /\ Len(calls) = 2

\* C24: an upload that cannot be decoded as audio is answered 400, and neither a
\* language probe nor a decoding attempt is made for it.
C24_BadAudio ==
  /\ (upload = "garbage" /\ tr_pc = "done") => tr_status = 400
  /\ upload = "garbage" => (probes = 0 /\ calls = <<>> /\ tr_pc \in {"read", "done"})
C24_Witness ==
  /\ upload = "garbage"
  /\ tr_status = 400
  /\ language = NoLang
  /\ temperature = <<"a">>

\* ------------------------------------------------------------------- C22
\* C22: with a token configured a request passes authentication exactly when its
\* X-API-Key header equals the token or its Authorization header is "Bearer <token>",
\* and is answered 401 otherwise; without a token every request passes.
C22_Authentication ==
  auth_status # 0 =>
    auth_status = IF \/ API_TOKEN = <<>>
                     \/ api_key = API_TOKEN
                     \/ auth_header = <<"Bearer ">> \o API_TOKEN
                  THEN 200 ELSE 401

\* ------------------------------------------------------------------- C25
\* C25: for an input shorter than 0.5 s the detector calls the language probe for no
\* segment and returns ("en", 0.0).
C25_ShortInput ==
  (det_pc \notin {"idle", "start", "loop"} /\ Len(det_audio) = 1
     /\ det_audio[1].samples # "full")
    => /\ det_pc = "done"
       /\ det_calls = 0
       /\ det_language = "en"
       /\ det_probability = <<0, 1>>

\* ------------------------------------------------------------------- C30
\* C30: on every path the detector returns either ("en", 0.0) or a language whose
\* probability is at least 0.5.
C30_DetectionTrusted ==
  det_pc = "done" =>
    \/ det_language = "en" /\ det_probability = <<0, 1>>
    \/ det_probability[1] >= 50 * det_probability[2]

\* ------------------------------------------------------------------- C26
\* C26: the adapter reports the normalized language of its caller when one was given,
\* otherwise the normalized language of the backend, and "en" only when there is
\* neither; a backend language "unknown" without a caller language stays "unknown".
C26_InfoLanguage ==
  info_pc = "done" =>
    /\ Truthy(caller_language)
         => detected_language = normalize_language_code(caller_language)
    /\ (~Truthy(caller_language) /\ Truthy(api_language))
         => detected_language = normalize_language_code(api_language)
    /\ (~Truthy(caller_language) /\ ~Truthy(api_language))
         => detected_language = <<"e", "n">>
    /\ (~Truthy(caller_language) /\ api_language = <<"u", "n", "k", "n", "o", "w", "n">>)
         => detected_language = <<"u", "n", "k", "n", "o", "w", "n">>
    /\ (caller_language = <<"E", "n", "g", "l", "i", "s", "h">>)
         => detected_language = <<"e", "n">>

C26_Witness ==
  /\ info_pc = "done"
  /\ caller_language = Absent
  /\ api_language = <<"u", "n", "k", "n", "o", "w", "n">>
  /\ detected_language = <<"u", "n", "k", "n", "o", "w", "n">>

\* ------------------------------------------------------------------- C27
\* C27: the user's meetings in status reserved, starting or active never number more
\* than max_concurrent_bots, whatever the interleaving of requests and callbacks.
C27_ConcurrentLimit == ActiveCount(meetings) <= max_concurrent_bots

\* ------------------------------------------------------------------- C28
\* C28: every meeting's status is always one of reserved, starting, active, stopping,
\* completed, failed.
C28_KnownStatus == \A m \in 1..Len(meetings) : meetings[m].status \in MeetingStatuses

\* ------------------------------------------------------------------- C29
\* C29: a meeting is created 'reserved'; the started callback changes a status only
\* from 'reserved' to 'starting', the joined callback only from 'starting' to
\* 'active'; in every other status they leave it as it is.
C29_CallbackTransitions ==
  [][ /\ \A m \in 1..Len(meetings') :
           m > Len(meetings) => meetings'[m].status = "reserved"
      /\ (\E c \in 1..MaxMeetings : BotStartedCallback(c))
           => \A m \in 1..Len(meetings) :
                meetings'[m].status # meetings[m].status
                  => meetings[m].status = "reserved" /\ meetings'[m].status = "starting"
      /\ (\E c \in 1..MaxMeetings : BotJoinedCallback(c))
           => \A m \in 1..Len(meetings) :
                meetings'[m].status # meetings[m].status
                  => meetings[m].status = "starting" /\ meetings'[m].status = "active"
    ]_vars

C29_Witness ==
  /\ max_concurrent_bots = 2
  /\ Len(meetings) = 2
  /\ meetings[1].status = "active"
  /\ meetings[2].status = "starting"

\* ------------------------------------------------------------------- C31
\* a step of the loop that accepted its segment
AcceptedSegment == det_pc = "loop" /\ segments_processed' = segments_processed + 1

\* the entry of the language with the highest average after the step
TopAfter == TopByAvg(language_prob_aggregator')

\* C31 as stated: after an accepted segment detection stops exactly when the top
\* language's average is at least the threshold (less 0.1 from the third accepted
\* segment on), at least two segments support it and two have been processed.
C31_EarlyStopAtLeast ==
  [][ AcceptedSegment =>
        (det_pc' = "done" <=>
           /\ SumSeq(TopAfter.probs) >=
                (IF segments_processed' >= 3 THEN language_detection_threshold - 10
                 ELSE language_detection_threshold) * Len(TopAfter.probs)
           /\ Len(TopAfter.probs) >= 2
           /\ segments_processed' >= 2) ]_vars

\* C31 amended: the average must be strictly above the threshold, and the lowered
\* threshold is max(0.4, threshold - 0.1); on stopping, that language and its average
\* are returned, otherwise the loop moves to the next segment.
C31_EarlyStopAbove ==
  [][ AcceptedSegment =>
        /\ det_pc' = "done" <=>
             /\ SumSeq(TopAfter.probs) >
                  (IF segments_processed' >= 3
                   THEN Max2(40, language_detection_threshold - 10)
                   ELSE language_detection_threshold) * Len(TopAfter.probs)
             /\ Len(TopAfter.probs) >= 2
             /\ segments_processed' >= 2
        /\ det_pc' = "done" =>
             /\ det_language' = TopAfter.lang
             /\ det_probability' = <<SumSeq(TopAfter.probs), Len(TopAfter.probs)>>
        /\ det_pc' # "done" => (det_pc' = "loop" /\ seg_idx' = seg_idx + 1) ]_vars

C31_Witness ==
  /\ det_pc = "done"
  /\ seg_idx < NumSegments(det_audio)
  /\ segments_processed = 3
  /\ language_detection_threshold = LANGUAGE_DETECTION_THRESHOLD
  /\ det_probability[1] < 50 * det_probability[2]

\* ------------------------------------------------------------------- C32
\* C32: every segment the adapter emits ends after it starts, whatever is present,
\* missing, non-numeric or inverted among audio_start/start, audio_end/end and the
\* durations; its start is audio_start, else start, else 0.
C32_SegmentSpan ==
  seg_pc = "done" =>
    /\ \A i \in 1..Len(adapter_segments) :
         FloatLess(adapter_segments[i].start, adapter_segments[i].end)
    /\ api_response.has_segments =>
         /\ Len(adapter_segments) = 1
         /\ LET seg == api_response.segment
            IN adapter_segments[1].start =
                 IF seg.audio_start.kind \in {"num", "nan"} THEN seg.audio_start
                 ELSE IF seg.audio_start.kind = "absent" /\ seg.start.kind = "num"
                      THEN seg.start
                      ELSE Num(0)

\* ------------------------------------------------------------------- C33
\* C33: the semaphore never holds more free permits than MAX_CONCURRENT_TRANSCRIPTIONS:
\* release() has never been called more often than acquire() has completed, also when
\* a request is interrupted while it waits in acquire().
C33_PermitBound ==
  /\ transcription_semaphore <= MAX_CONCURRENT_TRANSCRIPTIONS
  /\ SumSeq(released) <= SumSeq(acquired)

\* ------------------------------------------------------------------- C34
\* requests that have incremented the waiting counter and not yet decremented it
Queued == {r \in Requests : pc[r] \in {"acquire", "blocked", "acquired"}}

\* C34: the waiting counter is never negative and equals the number of live requests
\* between their increment and their decrement; it is 0 when there is none, also
\* after a request has left that phase abnormally.  (While an interrupted request is
\* still unwinding, the phase it was interrupted in is not recorded, so those states
\* are left out.)
C34_WaitingCounter ==
  /\ waiting_requests >= 0
  /\ (\A r \in Requests : pc[r] # "cancelling")
       => waiting_requests = Cardinality(Queued)

\* ------------------------------------------------------------------- C35
\* C35: with fail-fast enabled an admitted request never blocks on the semaphore: a
\* permit is free when it calls acquire(), no request waits for one, and the waiting
\* counter never exceeds 1.
C35_FailFastNeverBlocks ==
  FAIL_FAST_WHEN_BUSY =>
    /\ \A r \in Requests : pc[r] # "blocked"
    /\ \A r \in Requests : pc[r] = "acquire" => transcription_semaphore > 0
    /\ sem_waiters = <<>>
    /\ waiting_requests <= 1

C35_Witness ==
  /\ FAIL_FAST_WHEN_BUSY
  /\ MAX_CONCURRENT_TRANSCRIPTIONS = 2
  /\ transcription_semaphore = 1
  /\ waiting_requests = 1
  /\ \E r \in Requests : pc[r] = "acquire"

\* ------------------------------------------------------------------- C36
\* admitted requests that wait for a slot or hold one
InFlight ==
  {r \in Requests : pc[r] \in {"acquire", "blocked", "acquired", "read", "probe", "decode"}}

\* C36: the admitted requests in flight never number more than
\* MAX_CONCURRENT_TRANSCRIPTIONS + MAX_QUEUE_SIZE without fail-fast, and never more
\* than MAX_CONCURRENT_TRANSCRIPTIONS with it.
C36_InFlightBound ==
  Cardinality(InFlight) <=
    IF FAIL_FAST_WHEN_BUSY THEN MAX_CONCURRENT_TRANSCRIPTIONS
    ELSE MAX_CONCURRENT_TRANSCRIPTIONS + MAX_QUEUE_SIZE

C36_Witness ==
  /\ ~FAIL_FAST_WHEN_BUSY
  /\ MAX_CONCURRENT_TRANSCRIPTIONS = 1
  /\ MAX_QUEUE_SIZE = 2
  /\ Cardinality(InFlight) = 3
  /\ \E r \in Requests : status[r] = 503

\* ------------------------------------------------------------------- C37
\* C37: without fail-fast, every admitted request eventually obtains a slot and
\* eventually answers, when decoder calls return and scheduling is fair.
C37_EventuallyServed ==
  \A r \in Requests :
    (~FAIL_FAST_WHEN_BUSY /\ pc[r] \in {"acquire", "blocked"})
      ~> (acquired[r] = 1 /\ pc[r] = "done" /\ status[r] \in {200, 400, 500})

C37_Witness ==
  /\ ~FAIL_FAST_WHEN_BUSY
  /\ MAX_CONCURRENT_TRANSCRIPTIONS = 1
  /\ \A r \in 1..3 : pc[r] = "done" /\ status[r] = 200 /\ acquired[r] = 1
  /\ ~at_once

\* ------------------------------------------------------------ C38
\* ThreadPoolExecutor(max_workers=MAX_CONCURRENT_TRANSCRIPTIONS): the number of threads
max_workers == MAX_CONCURRENT_TRANSCRIPTIONS

\* C38: the tasks submitted to the decoder worker pool and not finished never exceed
\* the pool size, and every request with a task in the pool holds exactly one slot,
\* so no decoder task waits in the pool's queue.
C38_PoolNeverQueues ==
  /\ Cardinality(InDecoder) <= max_workers
  /\ \A r \in InDecoder : acquired[r] = released[r] + 1

\* ------------------------------------------------------------ C39
\* the request r is answered 401 or 503 in this step
Rejected(r) == status'[r] \in {401, 503} /\ status'[r] # status[r]

\* C39: a request rejected with 401 or 503 leaves the waiting counter and the permit
\* count as it found them, calls neither acquire() nor release(), and neither reads
\* the upload nor reaches the decoder, in the rejecting step or later.
C39_RejectionLeavesNoTrace ==
  [][\A r \in Requests :
       /\ Rejected(r) =>
            /\ UNCHANGED <<waiting_requests, semvars, acquired, released, attempt>>
            /\ pc[r] \in {"new", "check"}
            /\ pc'[r] = "done"
       /\ status[r] \in {401, 503} =>
            /\ pc'[r] = "done"
            /\ acquired'[r] = 0 /\ released'[r] = 0 /\ attempt'[r] = 0]_vars
C39_Witness ==
  /\ \E a, b, c \in Requests :
       /\ status[a] = 401
       /\ status[b] = 503
       /\ pc[c] \in {"probe", "decode"}
  /\ transcription_semaphore < MAX_CONCURRENT_TRANSCRIPTIONS

\* ------------------------------------------------------------ C40
TerminalStatuses == {"completed", "failed"}

\* C40: once a meeting's status is 'completed' or 'failed', no bot-manager operation
\* changes it back to 'reserved', 'starting', 'active' or 'stopping'.
C40_TerminalStays ==
  [][\A m \in 1..Len(meetings) :
       meetings[m].status \in TerminalStatuses =>
         meetings'[m].status \notin {"reserved", "starting", "active", "stopping"}]_vars

====
